---- MODULE Spec2Model ----
(***************************************************************************)
(* Model of the packet-injection and delivery engine of syslog_go:         *)
(*   - RawSocketConn (pkg/sender/rawsocket_linux.go): the spoofed          *)
(*     connection, its hand-rolled TCP handshake and its Write/Close;      *)
(*   - ConnectionPool (pkg/sender/connection.go) and the send workers of   *)
(*     Sender (NewSender, Start, sendWorker, sendMessage, Stop).           *)
(* Two specifications share the module: SpecConn drives one RawSocketConn, *)
(* SpecPool drives the pool with concurrent workers.                       *)
(***************************************************************************)
EXTENDS Integers, Sequences, FiniteSets, TLC

VARIABLES
    c,          \* the RawSocketConn: protocol, closed, connected, srcPort, seqNum, ackNum
    pc,         \* where the Write call in progress stands: "idle" or "recv"
    i,          \* loop counter of establishTCPConnection
    buf,        \* receive buffer of establishTCPConnection (reused by every read)
    data,       \* len(data) of the Write call in progress
    wire,       \* packets handed to Sendto by the current (or last) Write call
    ret,        \* what the last Write call returned: [n, err]
    reads,      \* history: what every Recvfrom of the current handshake returned
    last,       \* history: the last datagram received: bytes read (n), IP header
                \* length (hdr), sequence-number field (seq)
    nwrites,    \* history: number of Write calls started
    closes,     \* history: number of Close calls, number of syscall.Close(c.fd)
                \* calls, what the last Close call returned
    p,          \* the ConnectionPool: protocol, sourceIP, maxSize, closed,
                \* connections (the buffered channel)
    mutex,      \* p.mutex, the RWMutex: callers holding RLock, state of the writer
    conns,      \* every net.Conn created so far, by creation order: kind, closed, peer
    workers,    \* every sendWorker goroutine: position, connection held, error
    sender,     \* the Sender: lifecycle, ctx, the Stop call, stats.Sent, stats.Failed
    rl,         \* the RateLimiter: rate, interval, lastTime
    clock,      \* what time.Now() returns, in ticks since the limiter was created
    callers,    \* every goroutine calling Wait: "idle" or "sleeping" until wake
    hist,       \* history: number of Wait calls that returned, time of the last
                \* return, whether it followed an idle time of two intervals
    arg,        \* the arguments of one call of a function of the packet builder
                \* or of the message codec
    res         \* what that call has produced

connVars == <<c, pc, i, buf, data, wire, ret, reads, last, nwrites, closes>>

poolVars == <<p, mutex, conns, workers, sender>>

limVars == <<rl, clock, callers, hist>>

fnVars == <<arg, res>>

vars == <<c, pc, i, buf, data, wire, ret, reads, last, nwrites, closes,
          p, mutex, conns, workers, sender, rl, clock, callers, hist, arg, res>>

-----------------------------------------------------------------------------
(* Bounds of the model *)

\* Write calls made on the connection in one behaviour.
MaxWrites == 2

\* Close calls made on the connection in one behaviour.
MaxCloses == 2

\* Bytes of the 1500-byte receive buffer that the model keeps (every modelled
\* datagram is at most this long).
BufLen == 48

-----------------------------------------------------------------------------
(* Fixed-width integers.  A uint32 is a pair <<high 16 bits, low 16 bits>>. *)

Two8  == 256
Two16 == 65536

U16Bytes(x) == << x \div Two8, x % Two8 >>

U32Bytes(v) == U16Bytes(v[1]) \o U16Bytes(v[2])

\* b is a 0-indexed byte slice held as a sequence.
At(b, k) == b[k + 1]

\* binary.BigEndian.Uint16(b[off:off+2])
BigEndianUint16(b, off) == At(b, off) * Two8 + At(b, off + 1)

\* binary.BigEndian.Uint32(b[off:off+4])
BigEndianUint32(b, off) == << BigEndianUint16(b, off), BigEndianUint16(b, off + 2) >>

\* uint32 addition of a small non-negative n: wraps modulo 2^32.
Add32(v, n) ==
    LET s == v[2] + n
    IN  << (v[1] + (s \div Two16)) % Two16, s % Two16 >>

-----------------------------------------------------------------------------
(* Addresses and ports of the modelled connection *)

SourceIP == <<10, 9, 9, 9>>      \* the spoofed source address (c.sourceIP)
TargetIP == <<10, 0, 0, 2>>      \* c.targetIP
LocalIP  == <<10, 0, 0, 1>>      \* an address of the sending host
TargetPort == 514                \* c.targetPort
OtherPort  == 8080

IPPROTO_TCP == 6
IPPROTO_UDP == 17

FlagSYN    == 2
FlagACK    == 16
FlagSYNACK == 18
FlagPSHACK == 24

\* maxRetries of establishTCPConnection
MaxRetries == 5

\* Low 32 bits of time.Now().UnixNano(), as <<high 16, low 16>>.
Clocks == { <<0, 0>>, <<65535, 32768>> }

\* len(data) of a Write
DataLens == {0, 3}

-----------------------------------------------------------------------------
(* Errors of syscall.Recvfrom.  A read that hits the SO_RCVTIMEO deadline   *)
(* fails with EAGAIN; Errno.Error() gives the text of the errno.            *)

Errnos == {"EAGAIN", "EINTR"}

ErrnoText(e) ==
    IF e = "EAGAIN"
    THEN << "r","e","s","o","u","r","c","e"," ","t","e","m","p","o","r","a","r","i","l","y",
            " ","u","n","a","v","a","i","l","a","b","l","e" >>
    ELSE << "i","n","t","e","r","r","u","p","t","e","d"," ","s","y","s","t","e","m",
            " ","c","a","l","l" >>

TimeoutWord == << "t","i","m","e","o","u","t" >>

\* strings.Contains(s, sub)
StringsContains(s, sub) ==
    \E k \in 0..(Len(s) - Len(sub)) : SubSeq(s, k + 1, k + Len(sub)) = sub

-----------------------------------------------------------------------------
(* Datagrams the raw socket can deliver *)

Repeat(x, n) == [k \in 1..n |-> x]

\* An IPv4 datagram carrying a TCP header: ihl 32-bit words of IP header
\* (options are NOPs), the 20-byte TCP header, payload bytes `fill`, cut to n bytes.
Datagram(ver, ihl, proto, dst, sp, dp, seq, ack, flags, n, fill) ==
    LET ip  == << ver * 16 + ihl, 0, 0, 0, 0, 0, 0, 0, 64, proto, 0, 0 >>
               \o TargetIP \o dst \o Repeat(1, ihl * 4 - 20)
        tcp == U16Bytes(sp) \o U16Bytes(dp) \o U32Bytes(seq) \o U32Bytes(ack)
               \o << 80, flags, 255, 255, 0, 0, 0, 0 >>
    IN  SubSeq(ip \o tcp \o Repeat(fill, BufLen), 1, n)

PeerSeqs == { <<0, 5>>, <<65535, 65535>> }
PeerAcks == { <<0, 9>>, <<65535, 65535>> }

OtherEphemeral(port) == (port + 1) % Two16

\* What Recvfrom may return while the handshake of source port `port` waits.
Datagrams(port) ==
    \* the SYN+ACK of the peer
    { Datagram(4, 5, IPPROTO_TCP, SourceIP, TargetPort, port, s, a, FlagSYNACK, 40, 0) :
        s \in PeerSeqs, a \in PeerAcks }
    \cup
    { \* one of the six filtered fields differs
      Datagram(6, 5, IPPROTO_TCP, SourceIP, TargetPort, port, <<0, 5>>, <<0, 9>>, FlagSYNACK, 40, 0),
      Datagram(4, 5, IPPROTO_UDP, SourceIP, TargetPort, port, <<0, 5>>, <<0, 9>>, FlagSYNACK, 40, 0),
      Datagram(4, 5, IPPROTO_TCP, LocalIP, TargetPort, port, <<0, 5>>, <<0, 9>>, FlagSYNACK, 40, 0),
      Datagram(4, 5, IPPROTO_TCP, SourceIP, OtherPort, port, <<0, 5>>, <<0, 9>>, FlagSYNACK, 40, 0),
      Datagram(4, 5, IPPROTO_TCP, SourceIP, TargetPort, OtherEphemeral(port), <<0, 5>>, <<0, 9>>, FlagSYNACK, 40, 0),
      Datagram(4, 5, IPPROTO_TCP, SourceIP, TargetPort, port, <<0, 5>>, <<0, 9>>, FlagACK, 40, 0),
      Datagram(4, 5, IPPROTO_TCP, SourceIP, TargetPort, port, <<0, 5>>, <<0, 9>>, FlagSYNACK + 64, 40, 0),
      \* shorter than two bare headers
      Datagram(4, 5, IPPROTO_TCP, SourceIP, TargetPort, port, <<0, 5>>, <<0, 9>>, FlagSYNACK, 39, 0),
      \* a SYN+ACK behind an IP header with options
      Datagram(4, 7, IPPROTO_TCP, SourceIP, TargetPort, port, <<0, 5>>, <<0, 9>>, FlagSYNACK, 48, 0),
      \* IP options and a TCP header cut off after the acknowledgment number
      Datagram(4, 7, IPPROTO_TCP, SourceIP, TargetPort, port, <<0, 5>>, <<0, 9>>, FlagSYNACK, 40, 0),
      \* unrelated traffic of the host, with payload
      Datagram(4, 5, IPPROTO_TCP, LocalIP, OtherPort, OtherPort, <<0, 5>>, <<0, 9>>, FlagPSHACK, 48, 18) }

\* Outcomes of one syscall.SetsockoptTimeval + syscall.Recvfrom.
OutcomesFor(port) ==
    { [kind |-> "sockopt", errno |-> "EBADF", bytes |-> <<>>] }
    \cup { [kind |-> "errno", errno |-> e, bytes |-> <<>>] : e \in Errnos }
    \cup { [kind |-> "dgram", errno |-> "", bytes |-> d] : d \in Datagrams(port) }

\* the same, tabulated for the source ports a handshake can choose
OutcomeTable ==
    [port \in { (t[2] + 32768) % Two16 : t \in Clocks } |-> OutcomesFor(port)]

RecvOutcomes(port) ==
    IF port \in DOMAIN OutcomeTable THEN OutcomeTable[port] ELSE OutcomesFor(port)

-----------------------------------------------------------------------------
(* establishTCPConnection: the filter applied to the receive buffer *)

\* copy of the n received bytes into buf; the rest of buf keeps what it held
RecvInto(b, d) ==
    [k \in 1..BufLen |-> IF k <= Len(d) THEN d[k] ELSE b[k]]

\* ipHeaderLen := (buf[0] & 0x0F) * 4   (a byte)
IPHeaderLen(b) == ((At(b, 0) % 16) * 4) % Two8

\* The checks of lines 196-286 on the buffer after a read of n bytes:
\* TRUE when the loop goes on to adopt the sequence numbers.
AcceptsSynAck(b, n, conn) ==
    /\ ~(n < 40)
    /\ At(b, 0) \div 16 = 4
    /\ At(b, 9) = IPPROTO_TCP
    /\ SubSeq(b, 17, 20) = SourceIP
    /\ BigEndianUint16(b, IPHeaderLen(b)) = TargetPort % Two16
    /\ BigEndianUint16(b, IPHeaderLen(b) + 2) = conn.srcPort
    /\ At(b, IPHeaderLen(b) + 13) = FlagSYNACK

\* c.ackNum = binary.BigEndian.Uint32(buf[tcpOffset+8:tcpOffset+12]) + 1
AdoptAckNum(b) == Add32(BigEndianUint32(b, IPHeaderLen(b) + 8), 1)

\* c.seqNum = binary.BigEndian.Uint32(buf[tcpOffset+4:tcpOffset+8])
AdoptSeqNum(b) == BigEndianUint32(b, IPHeaderLen(b) + 4)

\* uint16(time.Now().UnixNano()&0xFFFF) + 32768, in a uint16
EphemeralPort(t) == (t[2] + 32768) % Two16

\* uint32(time.Now().UnixNano() & 0xFFFFFFFF)
InitialSeq(t) == t

\* an addition whose carry out of the low 16 bits is lost
AdvanceSeqLow16(seq, n) == << seq[1], (seq[2] + n) % Two16 >>

\* c.seqNum += uint32(len(data))
AdvanceSeq(seq, n) == Add32(seq, n)

-----------------------------------------------------------------------------
(* Packets built by sendTCPPacket and by the UDP branch of Write *)

TCPPacket(conn, flags, n) ==
    [ proto    |-> IPPROTO_TCP,
      srcPort  |-> conn.srcPort,
      dstPort  |-> TargetPort % Two16,
      seq      |-> conn.seqNum,
      ack      |-> conn.ackNum,
      flags    |-> flags % Two8,
      len      |-> n,
      totalLen |-> (20 + 20 + n) % Two16 ]

UDPPacket(t, n) ==
    [ proto    |-> IPPROTO_UDP,
      srcPort  |-> EphemeralPort(t),
      dstPort  |-> TargetPort % Two16,
      seq      |-> <<0, 0>>,
      ack      |-> <<0, 0>>,
      flags    |-> 0,
      len      |-> n,
      totalLen |-> (20 + 8 + n) % Two16 ]

NoErr        == "nil"
Pending      == "Write has not returned"
ErrClosed    == "connection closed"
ErrSendSYN   == "send SYN failed"
ErrSockopt   == "set read timeout failed"
ErrRecv      == "receive failed"
ErrSendACK   == "send ACK failed"
ErrNoSynAck  == "no SYN+ACK received"
ErrSend      == "sendto failed"
ErrCloseFd   == "close(fd) failed"

Return(n, err) == [n |-> n, err |-> err]

-----------------------------------------------------------------------------
(* RawSocketConn: initial state and operations *)

ZeroBuf == Repeat(0, BufLen)

NoDatagram == [n |-> 0, hdr |-> 0, seq |-> <<0, 0>>]

ConnInit ==
    /\ c \in { [protocol |-> proto, closed |-> FALSE, connected |-> FALSE,
                srcPort |-> 0, seqNum |-> <<0, 0>>, ackNum |-> <<0, 0>>] :
               proto \in {"tcp", "udp"} }
    /\ pc = "idle"
    /\ i = 0
    /\ buf = <<>>
    /\ data = 0
    /\ wire = <<>>
    /\ ret = Return(0, NoErr)
    /\ reads = <<>>
    /\ last = NoDatagram
    /\ nwrites = 0
    /\ closes = [calls |-> 0, fd |-> 0, err |-> NoErr]

\* a test that never asks for the handshake
NeedsHandshakeNever(conn) == FALSE

\* a test that forgets the connected flag
NeedsHandshakeAlways(conn) == conn.protocol = "tcp"

\* Write, line 416: c.protocol == "tcp" && !c.connected
NeedsHandshake(conn) == conn.protocol = "tcp" /\ ~conn.connected

\* Write on a closed connection
WriteClosed(n) ==
    /\ pc = "idle" /\ nwrites < MaxWrites
    /\ c.closed
    /\ ret' = Return(0, ErrClosed)
    /\ wire' = <<>>
    /\ data' = n
    /\ nwrites' = nwrites + 1
    /\ UNCHANGED <<c, pc, i, buf, reads, last, closes, poolVars, limVars, fnVars>>

\* Write on a TCP connection that is not connected: establishTCPConnection
\* up to the first read (ports, initial sequence number, SYN).
WriteHandshake(n, t1, t2, sendOK) ==
    /\ pc = "idle" /\ nwrites < MaxWrites
    /\ ~c.closed
    /\ NeedsHandshake(c)
    /\ LET conn == [c EXCEPT !.srcPort = EphemeralPort(t1), !.seqNum = InitialSeq(t2)]
       IN  /\ c' = conn
           /\ wire' = IF sendOK THEN << TCPPacket(conn, FlagSYN, 0) >> ELSE <<>>
           /\ IF sendOK
              THEN /\ pc' = "recv"
                   /\ ret' = Return(0, Pending)
              ELSE /\ pc' = "idle"
                   /\ ret' = Return(0, ErrSendSYN)
    /\ i' = 0
    /\ buf' = IF sendOK THEN ZeroBuf ELSE <<>>
    /\ data' = n
    /\ reads' = <<>>
    /\ last' = NoDatagram
    /\ nwrites' = nwrites + 1
    /\ UNCHANGED <<closes, closes, poolVars, limVars, fnVars>>

\* A datagram that is a SYN+ACK for this handshake: it holds a whole IP header
\* and a whole TCP header, and these fields of the datagram itself are IPv4,
\* TCP, destination = spoofed source, ports mirrored, flags = 0x12.
IsValidSynAck(d, conn) ==
    /\ Len(d) >= 20
    /\ At(d, 0) \div 16 = 4
    /\ At(d, 9) = IPPROTO_TCP
    /\ SubSeq(d, 17, 20) = SourceIP
    /\ LET off == (At(d, 0) % 16) * 4
       IN  /\ Len(d) >= off + 20
           /\ BigEndianUint16(d, off) = TargetPort
           /\ BigEndianUint16(d, off + 2) = conn.srcPort
           /\ At(d, off + 13) = FlagSYNACK

\* sequence-number field of the TCP header of a datagram (zero when the
\* datagram is too short to hold one)
SeqField(d) ==
    LET off == (At(d, 0) % 16) * 4
    IN  IF Len(d) >= off + 8 THEN BigEndianUint32(d, off + 4) ELSE <<0, 0>>

ReadKind(out, conn) ==
    CASE out.kind = "sockopt" -> "sockopt"
      [] out.kind = "errno" /\ out.errno = "EAGAIN" -> "timeout"
      [] out.kind = "errno" /\ out.errno # "EAGAIN" -> "error"
      [] out.kind = "dgram" /\ IsValidSynAck(out.bytes, conn) -> "synack"
      [] OTHER -> "other"

\* Outcomes of the Sendto calls that follow an accepted SYN+ACK (the ACK, then
\* the data packet); no packet is sent after any other read.
SendOutcomes(out) ==
    IF pc = "recv" /\ out.kind = "dgram"
       /\ AcceptsSynAck(RecvInto(buf, out.bytes), Len(out.bytes), c)
    THEN {"sent", "ACK fails", "data fails"}
    ELSE {"sent"}

\* `continue`: next iteration with the buffer b, or the end of the loop
Continue(b) ==
    /\ IF i + 1 < MaxRetries
       THEN /\ pc' = "recv"
            /\ i' = i + 1
            /\ buf' = b
            /\ ret' = ret
       ELSE /\ pc' = "idle"
            /\ i' = 0
            /\ buf' = <<>>
            /\ ret' = Return(0, ErrNoSynAck)
    /\ UNCHANGED <<c, wire>>

\* One iteration of the retry loop of establishTCPConnection and, when it
\* ends the handshake, the rest of Write.  The locals i and buf are gone
\* when establishTCPConnection returns.
HandshakeRecv(out, snd) ==
    /\ pc = "recv"
    /\ reads' = Append(reads, ReadKind(out, c))
    /\ last' = IF out.kind = "dgram"
               THEN [n |-> Len(out.bytes), hdr |-> (At(out.bytes, 0) % 16) * 4,
                     seq |-> SeqField(out.bytes)]
               ELSE last
    /\ UNCHANGED <<data, nwrites, closes, poolVars, limVars, fnVars>>
    /\ CASE out.kind = "sockopt" ->
              /\ pc' = "idle"
              /\ i' = 0
              /\ buf' = <<>>
              /\ ret' = Return(0, ErrSockopt)
              /\ UNCHANGED <<c, wire>>
         [] out.kind = "errno" ->
              IF StringsContains(ErrnoText(out.errno), TimeoutWord)
              THEN Continue(buf)
              ELSE /\ pc' = "idle"
                   /\ i' = 0
                   /\ buf' = <<>>
                   /\ ret' = Return(0, ErrRecv)
                   /\ UNCHANGED <<c, wire>>
         [] out.kind = "dgram" ->
              LET b == RecvInto(buf, out.bytes)
                  n == Len(out.bytes)
              IN  IF ~AcceptsSynAck(b, n, c)
                  THEN Continue(b)
                  ELSE LET adopted == [c EXCEPT !.ackNum = AdoptAckNum(b),
                                                !.seqNum = AdoptSeqNum(b)]
                           ackPkt  == TCPPacket(adopted, FlagACK, 0)
                           estab   == [adopted EXCEPT !.connected = TRUE]
                           dataPkt == TCPPacket(estab, FlagPSHACK, data)
                       IN  /\ pc' = "idle"
                           /\ i' = 0
                           /\ buf' = <<>>
                           /\ IF snd = "ACK fails"
                              THEN /\ c' = adopted
                                   /\ wire' = wire
                                   /\ ret' = Return(0, ErrSendACK)
                              ELSE IF snd = "data fails"
                              THEN /\ c' = estab
                                   /\ wire' = Append(wire, ackPkt)
                                   /\ ret' = Return(0, ErrSend)
                              ELSE /\ c' = [estab EXCEPT !.seqNum = AdvanceSeq(estab.seqNum, data)]
                                   /\ wire' = wire \o << ackPkt, dataPkt >>
                                   /\ ret' = Return(data, NoErr)

\* Write on a connected TCP connection
WriteTCP(n, sendOK) ==
    /\ pc = "idle" /\ nwrites < MaxWrites
    /\ ~c.closed
    /\ c.protocol = "tcp" /\ ~NeedsHandshake(c)
    /\ IF sendOK
       THEN /\ wire' = << TCPPacket(c, FlagPSHACK, n) >>
            /\ c' = [c EXCEPT !.seqNum = AdvanceSeq(c.seqNum, n)]
            /\ ret' = Return(n, NoErr)
       ELSE /\ wire' = <<>>
            /\ c' = c
            /\ ret' = Return(0, ErrSend)
    /\ data' = n
    /\ nwrites' = nwrites + 1
    /\ UNCHANGED <<pc, i, buf, reads, last, closes, poolVars, limVars, fnVars>>

\* Write on a UDP connection
WriteUDP(n, t, sendOK) ==
    /\ pc = "idle" /\ nwrites < MaxWrites
    /\ ~c.closed
    /\ c.protocol = "udp"
    /\ IF sendOK
       THEN /\ wire' = << UDPPacket(t, n) >>
            /\ ret' = Return(n, NoErr)
       ELSE /\ wire' = <<>>
            /\ ret' = Return(0, ErrSend)
    /\ data' = n
    /\ nwrites' = nwrites + 1
    /\ UNCHANGED <<c, pc, i, buf, reads, last, closes, poolVars, limVars, fnVars>>

\* a Close that releases the descriptor whatever c.closed says
NeedsCloseAlways(conn) == TRUE

\* Close, line 514: `if c.closed { return nil }` is not taken
NeedsClose(conn) == ~conn.closed

\* Close (never concurrent with a Write: the pool hands a connection to one
\* caller at a time); syscall.Close(c.fd) succeeds or fails (ok)
ConnClose(ok) ==
    /\ pc = "idle" /\ closes.calls < MaxCloses
    /\ IF NeedsClose(c)
       THEN /\ c' = [c EXCEPT !.closed = TRUE]
            /\ closes' = [calls |-> closes.calls + 1, fd |-> closes.fd + 1,
                          err |-> IF ok THEN NoErr ELSE ErrCloseFd]
       ELSE /\ c' = c
            /\ closes' = [closes EXCEPT !.calls = @ + 1, !.err = NoErr]
    /\ UNCHANGED <<pc, i, buf, data, wire, ret, reads, last, nwrites, poolVars, limVars, fnVars>>

\* The context of the Sender whose worker uses the connection is done: its
\* deadline has passed or Stop has cancelled it.  Nothing in RawSocketConn
\* holds or reads the context.
CtxDone ==
    /\ ~sender.done
    /\ sender' = [sender EXCEPT !.done = TRUE]
    /\ UNCHANGED <<connVars, p, mutex, conns, workers, limVars, fnVars>>

ConnNext ==
    \/ \E n \in DataLens : WriteClosed(n)
    \/ \E n \in DataLens, t1 \in Clocks, t2 \in Clocks, sendOK \in BOOLEAN :
          WriteHandshake(n, t1, t2, sendOK)
    \/ \E out \in RecvOutcomes(c.srcPort) : \E snd \in SendOutcomes(out) :
          HandshakeRecv(out, snd)
    \/ \E n \in DataLens, sendOK \in BOOLEAN : WriteTCP(n, sendOK)
    \/ \E n \in DataLens, t \in Clocks, sendOK \in BOOLEAN : WriteUDP(n, t, sendOK)
    \/ \E ok \in BOOLEAN : ConnClose(ok)
    \/ CtxDone

-----------------------------------------------------------------------------
(* ConnectionPool, net.Conn and the Sender's workers: data *)

\* Bounds of the pool model: send workers (config.Concurrency), loop
\* iterations the workers start between them, and calls of Stop.
NumWorkers == 2
MaxMsgs == 3
MaxStops == 2

Workers == 1..NumWorkers

\* Connections that can be created at all: maxSize at construction, at most
\* one per Get after that.
MaxConns == NumWorkers + MaxMsgs

\* nil, as a net.Conn
NoConn == 0

ErrGet        == "get connection failed"
ErrWriteData  == "write data failed"

\* A connection as createConnection returns it: a RawSocketConn ("raw") or
\* what Dial returns ("dial").  peerClosed: the remote end of a dialed TCP
\* connection has closed it.
NewConn(kind) == [kind |-> kind, closed |-> FALSE, peerClosed |-> FALSE]

\* a Close that leaves the connection open
NotClosed(conn) == conn

\* conn.Close()
Closed(conn) == [conn EXCEPT !.closed = TRUE]

\* a connection that is dropped without conn.Close()
CloseConnForgotten(cs, id) == cs

CloseConn(cs, id) == [cs EXCEPT ![id] = Closed(@)]

\* a drain of the queue that closes nothing
CloseNone(cs, ids) == cs

\* Close, lines 417-420: every connection received from the channel is closed
CloseAll(cs, ids) == [id \in 1..Len(cs) |-> IF id \in ids THEN Closed(cs[id]) ELSE cs[id]]

Range(q) == { q[k] : k \in 1..Len(q) }

\* Source addresses a pool is configured with (p.sourceIP, a string): none,
\* the loopback address, an address of an interface of the sending host, an
\* address of another host.
NoSourceIP       == ""
LoopbackSourceIP == "127.0.0.1"
LocalSourceIP    == "10.0.0.1"
ForeignSourceIP  == "10.9.9.9"

SourceIPs == {NoSourceIP, LoopbackSourceIP, LocalSourceIP, ForeignSourceIP}

\* What net.Interfaces() and iface.Addrs() list on the sending host (both
\* taken to succeed).
InterfaceAddrs == {LocalSourceIP}

\* a test that finds no address local
isLocalIPNever(ip) == FALSE

\* isLocalIP: ip is an address of an interface, or a loopback address
isLocalIP(ip) == ip \in InterfaceAddrs \/ ip \in {"127.0.0.1", "::1"}

\* createConnection for protocol tcp or udp: whether newRawSocketConn is
\* called, and what is returned, when a raw socket can (rawOK) or cannot be
\* created and Dial succeeds (dialOK) or fails.
createConnection(pool, rawOK, dialOK) ==
    IF pool.sourceIP # "" /\ ~isLocalIP(pool.sourceIP)
    THEN [rawTried |-> TRUE,
          result |-> IF rawOK THEN "raw" ELSE IF dialOK THEN "dial" ELSE "error"]
    ELSE [rawTried |-> FALSE,
          result |-> IF dialOK THEN "dial" ELSE "error"]

\* createConnection: what one call can return.  With a foreign source
\* address it tries a raw socket and falls back to Dial; Dial can fail.
CreateOutcomes(pool, created) ==
    IF created >= MaxConns THEN {"error"}
    ELSE { createConnection(pool, rawOK, dialOK).result : rawOK \in BOOLEAN, dialOK \in BOOLEAN }

\* conn.Read with the 1 ms deadline of isConnectionValid: what it can
\* return.  RawSocketConn.Read always returns an error; on a dialed
\* connection the deadline passes, or a byte the peer sent is read, or, the
\* peer having closed, io.EOF follows what it sent before.
ProbeReads(conn) ==
    IF conn.kind = "raw" THEN {"error"}
    ELSE IF conn.closed THEN {"error"}
    ELSE IF conn.peerClosed THEN {"data", "eof"}
    ELSE {"timeout", "data"}

\* The reads isConnectionValid can make: none on a UDP pool.
Probes(pool, conn) == IF pool.protocol = "udp" THEN {"none"} ELSE ProbeReads(conn)

isConnectionValid(pool, rd) ==
    IF pool.protocol = "udp" THEN TRUE
    ELSE IF rd = "timeout" THEN TRUE
    ELSE rd = "data"

\* a receive that leaves the connection on the queue
ChanPeek(q) == q

\* conn := <-p.connections: the queue that is left
ChanRecv(q) == Tail(q)

\* a send that loses the connection
ChanDrop(q, id) == q

\* p.connections <- conn
ChanSend(q, id) == Append(q, id)

\* The creations of NewConnectionPool that succeed: those before the first error.
RECURSIVE Created(_)
Created(outs) ==
    IF outs = <<>> \/ Head(outs) = "error" THEN <<>>
    ELSE << Head(outs) >> \o Created(Tail(outs))

PoolStart(proto, sourceIP, n) ==
    /\ p = [protocol |-> proto, sourceIP |-> sourceIP, maxSize |-> n,
            closed |-> FALSE, connections |-> <<>>]
    /\ mutex = [readers |-> {}, writer |-> "free"]
    /\ conns = <<>>
    /\ workers = [k \in Workers |-> [pc |-> "unborn", conn |-> NoConn, err |-> NoErr]]
    /\ sender = [phase |-> "new", done |-> FALSE, stop |-> "idle", stops |-> 0,
                 started |-> 0, Sent |-> 0, Failed |-> 0]

\* Capacities of the pool (maxSize of NewConnectionPool): that of
\* initConnectionPool, config.Concurrency, and the smaller ones, where the
\* pool has more callers than capacity.
PoolSizes == 1..NumWorkers

\* Source addresses of the pools whose operations are followed: none and
\* a foreign one.
PoolSourceIPs == {NoSourceIP, ForeignSourceIP}

PoolInit ==
    \E proto \in {"tcp", "udp"}, sourceIP \in PoolSourceIPs, n \in PoolSizes :
        PoolStart(proto, sourceIP, n)

\* One call of createConnection that returns a connection (a call that
\* returns an error changes nothing)
CreateConnection(out) ==
    /\ Len(conns) < MaxConns
    /\ out # "error"
    /\ conns' = Append(conns, NewConn(out))
    /\ UNCHANGED <<p, mutex, workers, sender, connVars, limVars, fnVars>>

FactoryInit ==
    \E proto \in {"tcp", "udp"}, sourceIP \in SourceIPs :
        PoolStart(proto, sourceIP, 1)

FactoryNext == \E out \in CreateOutcomes(p, Len(conns)) : CreateConnection(out)

-----------------------------------------------------------------------------
(* ConnectionPool and Sender: operations *)

SetWorker(k, pcNew, id, err) ==
    workers' = [workers EXCEPT ![k] = [pc |-> pcNew, conn |-> id, err |-> err]]

RUnlock(k) == mutex' = [mutex EXCEPT !.readers = @ \ {k}]

\* NewSender: context.WithTimeout, then NewConnectionPool, which creates
\* maxSize connections and queues them, or closes the pool at the first
\* creation that fails and returns no pool.
NewSender(outs) ==
    /\ sender.phase = "new"
    /\ LET made == Created(outs)
           all  == [k \in 1..Len(made) |-> NewConn(made[k])]
       IN  IF Len(made) = p.maxSize
           THEN /\ conns' = all
                /\ p' = [p EXCEPT !.connections = [k \in 1..Len(made) |-> k]]
                /\ sender' = [sender EXCEPT !.phase = "ready"]
           ELSE /\ conns' = CloseAll(all, 1..Len(made))
                /\ p' = [p EXCEPT !.closed = TRUE]
                /\ sender' = [sender EXCEPT !.phase = "failed"]
    /\ UNCHANGED <<mutex, workers, connVars, limVars, fnVars>>

\* Start: one goroutine per worker
Start ==
    /\ sender.phase = "ready"
    /\ sender' = [sender EXCEPT !.phase = "running"]
    /\ workers' = [k \in Workers |-> [workers[k] EXCEPT !.pc = "loop"]]
    /\ UNCHANGED <<p, mutex, conns, connVars, limVars, fnVars>>

\* a wg.Wait() that waits for nothing
WaitGroupSkipped == TRUE

\* wg.Wait(): every wg.Add(1) of Start has been answered by the deferred
\* wg.Done() of its sendWorker
WaitGroupZero == \A k \in Workers : workers[k].pc = "exited"

\* Start: wg.Wait() returns, EndTime is set
StartReturns ==
    /\ sender.phase = "running"
    /\ WaitGroupZero
    /\ sender' = [sender EXCEPT !.phase = "ended"]
    /\ UNCHANGED <<p, mutex, conns, workers, connVars, limVars, fnVars>>

\* The deadline of the context passes
Deadline ==
    /\ sender.phase \in {"ready", "running"}
    /\ ~sender.done
    /\ sender' = [sender EXCEPT !.done = TRUE]
    /\ UNCHANGED <<p, mutex, conns, workers, connVars, limVars, fnVars>>

\* a select that never finds the context done
CancelledNever(st) == FALSE

\* sendWorker, `case <-s.ctx.Done()`: the context is done
Cancelled(st) == st.done

\* sendWorker: the worker sees ctx.Done() at the top of its loop and returns
Exit(k) ==
    /\ workers[k].pc = "loop"
    /\ Cancelled(sender)
    /\ SetWorker(k, "exited", NoConn, NoErr)
    /\ UNCHANGED <<p, mutex, conns, sender, connVars, limVars, fnVars>>

\* sendWorker: the default branch of the select up to sendMessage:
\* rateLimiter.Wait() returns, generateMessage returns a message or an error
Iterate(k, ok) ==
    /\ workers[k].pc = "loop"
    /\ ~Cancelled(sender)
    /\ sender.started < MaxMsgs
    /\ IF ok
       THEN /\ SetWorker(k, "get", NoConn, NoErr)
            /\ sender' = [sender EXCEPT !.started = @ + 1]
       ELSE /\ SetWorker(k, "loop", NoConn, NoErr)
            /\ sender' = [sender EXCEPT !.started = @ + 1, !.Failed = @ + 1]
    /\ UNCHANGED <<p, mutex, conns, connVars, limVars, fnVars>>

\* Get: p.mutex.RLock(), which waits while a writer holds or awaits the lock
GetRLock(k) ==
    /\ workers[k].pc = "get"
    /\ mutex.writer = "free"
    /\ mutex' = [mutex EXCEPT !.readers = @ \cup {k}]
    /\ SetWorker(k, "getting", NoConn, NoErr)
    /\ UNCHANGED <<p, conns, sender, connVars, limVars, fnVars>>

\* counters that leave out a send that failed
CountedSentOnly(st, err) ==
    IF err = NoErr THEN [st EXCEPT !.Sent = @ + 1] ELSE st

\* counters that take a UDP send like a TCP send
CountedByError(st, err) ==
    IF err = NoErr
    THEN [st EXCEPT !.Sent = @ + 1]
    ELSE [st EXCEPT !.Failed = @ + 1]

\* sendWorker, after sendMessage returned err: the counters
Counted(st, err) ==
    IF p.protocol = "udp" \/ err = NoErr
    THEN [st EXCEPT !.Sent = @ + 1]
    ELSE [st EXCEPT !.Failed = @ + 1]

\* a worker that calls Get again for the same message
GetRetries(k) ==
    /\ SetWorker(k, "get", NoConn, NoErr)
    /\ sender' = sender

\* Get fails: sendMessage returns the error, the worker counts and loops
GetFails(k) ==
    /\ SetWorker(k, "loop", NoConn, NoErr)
    /\ sender' = Counted(sender, ErrGet)

\* Get returns connection id: sendMessage goes on to conn.Write
GetGives(k, id) ==
    /\ SetWorker(k, "write", id, NoErr)
    /\ sender' = sender

\* createConnection, called by Get for worker k once `cs` are the connections
CreateFor(k, out, cs) ==
    IF out = "error"
    THEN /\ conns' = cs
         /\ GetFails(k)
    ELSE /\ conns' = Append(cs, NewConn(out))
         /\ GetGives(k, Len(cs) + 1)

\* a closed check that never sees the pool closed
GetSeesOpen(pool) == FALSE

\* Get, line 341: if p.closed
GetSeesClosed(pool) == pool.closed

\* The reads the probe of Get can make in this state
GetProbes ==
    IF ~GetSeesClosed(p) /\ p.connections # <<>>
    THEN Probes(p, conns[Head(p.connections)])
    ELSE {"none"}

\* Get, under the read lock: the closed check, the select on the channel,
\* the probe (its read returns rd), the replacement (createConnection
\* returns out), RUnlock.
GetBody(k, rd, out) ==
    /\ workers[k].pc = "getting"
    /\ RUnlock(k)
    /\ IF GetSeesClosed(p)
       THEN /\ GetFails(k)
            /\ UNCHANGED <<p, conns>>
       ELSE IF p.connections # <<>>
       THEN LET id == Head(p.connections)
            IN  /\ p' = [p EXCEPT !.connections = ChanRecv(p.connections)]
                /\ IF isConnectionValid(p, rd)
                   THEN /\ conns' = conns
                        /\ GetGives(k, id)
                   ELSE CreateFor(k, out, CloseConn(conns, id))
       ELSE /\ p' = p
            /\ CreateFor(k, out, conns)
    /\ UNCHANGED <<connVars, limVars, fnVars>>

\* a sendMessage that returns the error of Write without Put
WriteReturnsEarly(k, ok) ==
    /\ workers[k].pc = "write"
    /\ IF ok
       THEN /\ SetWorker(k, "put", workers[k].conn, NoErr)
            /\ sender' = sender
       ELSE /\ SetWorker(k, "loop", NoConn, NoErr)
            /\ sender' = Counted(sender, ErrWriteData)
    /\ UNCHANGED <<p, mutex, conns, connVars, limVars, fnVars>>

\* sendMessage: conn.Write(data) returns
Write(k, ok) ==
    /\ workers[k].pc = "write"
    /\ SetWorker(k, "put", workers[k].conn, IF ok THEN NoErr ELSE ErrWriteData)
    /\ UNCHANGED <<p, mutex, conns, sender, connVars, limVars, fnVars>>

\* Put (deferred in sendMessage): p.mutex.RLock()
PutRLock(k) ==
    /\ workers[k].pc = "put"
    /\ mutex.writer = "free"
    /\ mutex' = [mutex EXCEPT !.readers = @ \cup {k}]
    /\ SetWorker(k, "putting", workers[k].conn, workers[k].err)
    /\ UNCHANGED <<p, conns, sender, connVars, limVars, fnVars>>

\* The reads the probe of worker k's Put can make in this state
PutProbes(k) ==
    IF workers[k].pc = "putting" /\ ~p.closed
    THEN Probes(p, conns[workers[k].conn])
    ELSE {"none"}

\* Put, under the read lock: closed check and probe (its read returns rd),
\* then the select that queues the connection or, the queue being full,
\* closes it; RUnlock.  sendMessage then returns the error of Write, the
\* worker counts and loops.
PutBody(k, rd) ==
    /\ workers[k].pc = "putting"
    /\ RUnlock(k)
    /\ LET id == workers[k].conn
       IN  IF p.closed \/ ~isConnectionValid(p, rd)
           THEN /\ conns' = CloseConn(conns, id)
                /\ p' = p
           ELSE IF Len(p.connections) < p.maxSize
           THEN /\ conns' = conns
                /\ p' = [p EXCEPT !.connections = ChanSend(@, id)]
           ELSE /\ conns' = CloseConn(conns, id)
                /\ p' = p
    /\ SetWorker(k, "loop", NoConn, NoErr)
    /\ sender' = Counted(sender, workers[k].err)
    /\ UNCHANGED <<connVars, limVars, fnVars>>

\* Stop: s.cancel()
StopCancel ==
    /\ sender.phase \in {"ready", "running", "ended"}
    /\ sender.stop = "idle" /\ sender.stops < MaxStops
    /\ sender' = [sender EXCEPT !.done = TRUE, !.stop = "close", !.stops = @ + 1]
    /\ UNCHANGED <<p, mutex, conns, workers, connVars, limVars, fnVars>>

\* Stop, connPool.Close(): p.mutex.Lock() is called; readers that come
\* later wait behind it
CloseLock ==
    /\ sender.stop = "close"
    /\ mutex.writer = "free"
    /\ mutex' = [mutex EXCEPT !.writer = "waiting"]
    /\ sender' = [sender EXCEPT !.stop = "locked"]
    /\ UNCHANGED <<p, conns, workers, connVars, limVars, fnVars>>

\* a Lock that does not wait for the readers
LockGrantedAtOnce(m) == TRUE

\* p.mutex.Lock() returns: no reader holds the lock
LockGranted(m) == m.readers = {}

\* Close with the lock held (no reader left): mark closed, close the
\* channel, close what it holds; Unlock.
CloseBody ==
    /\ sender.stop = "locked"
    /\ LockGranted(mutex)
    /\ IF p.closed
       THEN UNCHANGED <<p, conns>>
       ELSE /\ p' = [p EXCEPT !.closed = TRUE, !.connections = <<>>]
            /\ conns' = CloseAll(conns, Range(p.connections))
    /\ mutex' = [mutex EXCEPT !.writer = "free"]
    /\ sender' = [sender EXCEPT !.stop = "idle"]
    /\ UNCHANGED <<workers, connVars, limVars, fnVars>>

\* The remote end of a dialed TCP connection closes it
PeerCloses(id) ==
    /\ p.protocol = "tcp"
    /\ id \in 1..Len(conns)
    /\ conns[id].kind = "dial" /\ ~conns[id].closed /\ ~conns[id].peerClosed
    /\ conns' = [conns EXCEPT ![id].peerClosed = TRUE]
    /\ UNCHANGED <<p, mutex, workers, sender, connVars, limVars, fnVars>>

PoolNext ==
    \/ \E outs \in [1..p.maxSize -> CreateOutcomes(p, 0)] : NewSender(outs)
    \/ Start
    \/ StartReturns
    \/ Deadline
    \/ \E k \in Workers : Exit(k)
    \/ \E k \in Workers, ok \in BOOLEAN : Iterate(k, ok)
    \/ \E k \in Workers : GetRLock(k)
    \/ \E k \in Workers, rd \in GetProbes, out \in CreateOutcomes(p, Len(conns)) :
          GetBody(k, rd, out)
    \/ \E k \in Workers, ok \in BOOLEAN : Write(k, ok)
    \/ \E k \in Workers : PutRLock(k)
    \/ \E k \in Workers : \E rd \in PutProbes(k) : PutBody(k, rd)
    \/ StopCancel
    \/ CloseLock
    \/ CloseBody
    \/ \E id \in 1..MaxConns : PeerCloses(id)

\* Get and Put step by step under the read lock: the closed check and the
\* channel operation are two steps of the goroutine, between which the
\* other goroutines run.

\* Get, line 341: the closed check
GetCheck(k) ==
    /\ workers[k].pc = "getting"
    /\ IF GetSeesClosed(p)
       THEN /\ RUnlock(k)
            /\ GetFails(k)
       ELSE /\ SetWorker(k, "receiving", NoConn, NoErr)
            /\ UNCHANGED <<mutex, sender>>
    /\ UNCHANGED <<p, conns, connVars, limVars, fnVars>>

\* Get, lines 345-357: the select on the channel, the probe, the
\* replacement; RUnlock.  A receive from a closed channel gives a nil
\* connection, and conn.Close() on it panics.
GetRecv(k, rd, out) ==
    /\ workers[k].pc = "receiving"
    /\ RUnlock(k)
    /\ IF p.closed
       THEN /\ SetWorker(k, "panicked", NoConn, NoErr)
            /\ UNCHANGED <<p, conns, sender>>
       ELSE IF p.connections # <<>>
       THEN LET id == Head(p.connections)
            IN  /\ p' = [p EXCEPT !.connections = ChanRecv(p.connections)]
                /\ IF isConnectionValid(p, rd)
                   THEN /\ conns' = conns
                        /\ GetGives(k, id)
                   ELSE CreateFor(k, out, CloseConn(conns, id))
       ELSE /\ p' = p
            /\ CreateFor(k, out, conns)
    /\ UNCHANGED <<connVars, limVars, fnVars>>

\* Put, lines 365-368: the closed check and the probe
PutCheck(k, rd) ==
    /\ workers[k].pc = "putting"
    /\ IF p.closed \/ ~isConnectionValid(p, rd)
       THEN /\ conns' = CloseConn(conns, workers[k].conn)
            /\ RUnlock(k)
            /\ SetWorker(k, "loop", NoConn, NoErr)
            /\ sender' = Counted(sender, workers[k].err)
       ELSE /\ SetWorker(k, "sending", workers[k].conn, workers[k].err)
            /\ UNCHANGED <<conns, mutex, sender>>
    /\ UNCHANGED <<p, connVars, limVars, fnVars>>

\* Put, lines 370-376: the select that queues the connection or closes it;
\* RUnlock.  A send on a closed channel panics.
PutSend(k) ==
    /\ workers[k].pc = "sending"
    /\ RUnlock(k)
    /\ IF p.closed
       THEN /\ SetWorker(k, "panicked", workers[k].conn, workers[k].err)
            /\ UNCHANGED <<p, conns, sender>>
       ELSE /\ IF Len(p.connections) < p.maxSize
               THEN /\ conns' = conns
                    /\ p' = [p EXCEPT !.connections = ChanSend(@, workers[k].conn)]
               ELSE /\ conns' = CloseConn(conns, workers[k].conn)
                    /\ p' = p
            /\ SetWorker(k, "loop", NoConn, NoErr)
            /\ sender' = Counted(sender, workers[k].err)
    /\ UNCHANGED <<connVars, limVars, fnVars>>

LockNext ==
    \/ \E outs \in [1..p.maxSize -> CreateOutcomes(p, 0)] : NewSender(outs)
    \/ Start
    \/ StartReturns
    \/ Deadline
    \/ \E k \in Workers : Exit(k)
    \/ \E k \in Workers, ok \in BOOLEAN : Iterate(k, ok)
    \/ \E k \in Workers : GetRLock(k)
    \/ \E k \in Workers : GetCheck(k)
    \/ \E k \in Workers, rd \in GetProbes, out \in CreateOutcomes(p, Len(conns)) :
          GetRecv(k, rd, out)
    \/ \E k \in Workers, ok \in BOOLEAN : Write(k, ok)
    \/ \E k \in Workers : PutRLock(k)
    \/ \E k \in Workers : \E rd \in PutProbes(k) : PutCheck(k, rd)
    \/ \E k \in Workers : PutSend(k)
    \/ StopCancel
    \/ CloseLock
    \/ CloseBody
    \/ \E id \in 1..MaxConns : PeerCloses(id)

-----------------------------------------------------------------------------
(* RateLimiter *)

\* Ticks of the clock in one second (time.Second).
Second == 12

\* The clock stops here.
MaxClock == 12

\* Goroutines that call Wait on one limiter.
NumCallers == 2

\* Configured rates, in events per second.
Rates == {3, 4, 6}

\* NewRateLimiter, called at time now
NewRateLimiter(ratePerSecond, now) ==
    [rate |-> ratePerSecond, interval |-> Second \div ratePerSecond, lastTime |-> now]

\* now.Sub(rl.lastTime)
Elapsed(l, now) == now - l.lastTime

\* a reference time that moves by one interval however much time elapsed
AdvanceOne(l, now) == [l EXCEPT !.lastTime = @ + l.interval]

\* rl.lastTime.Add(intervals * rl.interval), intervals := elapsed / rl.interval
Advance(l, now) ==
    [l EXCEPT !.lastTime = @ + (Elapsed(l, now) \div l.interval) * l.interval]

\* rl.lastTime.Add(rl.interval), after the sleep
AddInterval(l) == [l EXCEPT !.lastTime = @ + l.interval]

\* history: a Wait call returns at time now, idle tells whether the caller
\* had been idle for two intervals or more when it called
Granted(h, now, idle) == [granted |-> h.granted + 1, last |-> now, gap |-> idle]

Idle == [pc |-> "idle", wake |-> 0]

LimiterStart(ratePerSecond, n) ==
    /\ clock = 0
    /\ rl = NewRateLimiter(ratePerSecond, 0)
    /\ callers = [w \in 1..n |-> Idle]
    /\ hist = [granted |-> 0, last |-> 0, gap |-> FALSE]

LimiterInit ==
    \E ratePerSecond \in Rates, n \in 1..NumCallers : LimiterStart(ratePerSecond, n)

\* Wait, elapsed >= rl.interval: the reference time advances and Wait returns
WaitReturns(w) ==
    /\ callers[w].pc = "idle"
    /\ Elapsed(rl, clock) >= rl.interval
    /\ rl' = Advance(rl, clock)
    /\ hist' = Granted(hist, clock, clock - hist.last >= 2 * rl.interval)
    /\ UNCHANGED <<clock, callers, connVars, poolVars, fnVars>>

\* Wait, elapsed < rl.interval: the mutex is released and the caller sleeps
WaitSleeps(w) ==
    /\ callers[w].pc = "idle"
    /\ Elapsed(rl, clock) < rl.interval
    /\ callers' = [callers EXCEPT ![w] =
                      [pc |-> "sleeping",
                       wake |-> clock + (rl.interval - Elapsed(rl, clock))]]
    /\ UNCHANGED <<rl, clock, hist, connVars, poolVars, fnVars>>

\* Wait, after time.Sleep (which lasts waitTime or longer): the mutex is taken
\* again, the reference time moves by one interval and Wait returns
WaitWakes(w) ==
    /\ callers[w].pc = "sleeping"
    /\ clock >= callers[w].wake
    /\ rl' = AddInterval(rl)
    /\ callers' = [callers EXCEPT ![w] = Idle]
    /\ hist' = Granted(hist, clock, FALSE)
    /\ UNCHANGED <<clock, connVars, poolVars, fnVars>>

\* time passes
Tick ==
    /\ clock < MaxClock
    /\ clock' = clock + 1
    /\ UNCHANGED <<rl, callers, hist, connVars, poolVars, fnVars>>

LimiterNext ==
    \/ \E w \in DOMAIN callers : WaitReturns(w)
    \/ \E w \in DOMAIN callers : WaitSleeps(w)
    \/ \E w \in DOMAIN callers : WaitWakes(w)
    \/ Tick

\* Calls of SetRate that are followed.
MaxSets == 2

\* The number of SetRate calls so far
SetCalls == IF arg.fn = "SetRate" THEN arg.n ELSE 0

\* a SetRate that stores the rate and keeps the old interval
WithRateOnly(l, ratePerSecond) == [l EXCEPT !.rate = ratePerSecond]

\* SetRate: rl.rate and rl.interval are assigned, under the mutex
WithRate(l, ratePerSecond) ==
    [l EXCEPT !.rate = ratePerSecond, !.interval = Second \div ratePerSecond]

\* SetRate(ratePerSecond), called by a goroutine other than the callers of
\* Wait; arg remembers the call
SetRate(ratePerSecond) ==
    /\ SetCalls < MaxSets
    /\ rl' = WithRate(rl, ratePerSecond)
    /\ arg' = [fn |-> "SetRate", rate |-> ratePerSecond, n |-> SetCalls + 1]
    /\ UNCHANGED <<res, clock, callers, hist, connVars, poolVars>>

\* GetRate returns rl.rate
GetRate ==
    /\ res' = [fn |-> "GetRate", rate |-> rl.rate, n |-> SetCalls]
    /\ UNCHANGED <<arg, limVars, connVars, poolVars>>

ReconfNext ==
    \/ LimiterNext
    \/ \E ratePerSecond \in Rates : SetRate(ratePerSecond)
    \/ GetRate

NoArg == [fn |-> "none"]

NoRes == [fn |-> "none"]

\* No function call is followed.
FnStart == arg = NoArg /\ res = NoRes

-----------------------------------------------------------------------------
(* Packet builder: headers as bytes, Internet checksums *)

\* Longest payload of a built packet.
MaxPayload == 3

\* Values of a payload byte.
PayloadBytes == {0, 65, 255}

RECURSIVE BytesUpTo(_)
BytesUpTo(n) ==
    IF n = 0 THEN { <<>> }
    ELSE LET shorter == BytesUpTo(n - 1)
         IN  shorter \cup { Append(b, x) : b \in { t \in shorter : Len(t) = n - 1 },
                                            x \in PayloadBytes }

Payloads == BytesUpTo(MaxPayload)

\* Low 16 bits of time.Now().UnixNano(): the ID field of the IP header.
IPIdents == {0, 4660, 65535}

\* `for i := 0; i < len(b)-1; i += 2 { sum += uint32(b[i])<<8 | uint32(b[i+1]) }`
\* from index k on.  The sum of a packet that fits in an IP datagram stays
\* below 2^32.
RECURSIVE SumPairs(_, _)
SumPairs(b, k) ==
    IF k < Len(b) - 1
    THEN At(b, k) * Two8 + At(b, k + 1) + SumPairs(b, k + 2)
    ELSE 0

\* a sum that leaves out the last byte of an odd length
OddByteDropped(b) == 0

\* `if len(b)&1 == 1 { sum += uint32(b[len(b)-1]) << 8 }`
OddByte(b) == IF Len(b) % 2 = 1 THEN At(b, Len(b) - 1) * Two8 ELSE 0

\* a fold that drops the carries
FoldDropsCarry(sum) == sum % Two16

\* `for sum>>16 != 0 { sum = (sum & 0xFFFF) + (sum >> 16) }`
RECURSIVE Fold(_)
Fold(sum) ==
    IF sum \div Two16 # 0
    THEN Fold((sum % Two16) + (sum \div Two16))
    ELSE sum

\* ^uint16(sum)
Not16(sum) == (Two16 - 1) - (sum % Two16)

calculateIPChecksum(header) ==
    Not16(Fold(SumPairs(header, 0) + OddByte(header)))

\* The 12-byte pseudo-header of calculateTCPChecksum and calculateUDPChecksum
PseudoHeader(srcIP, dstIP, proto, len) ==
    srcIP \o dstIP \o <<0, proto>> \o U16Bytes(len % Two16)

calculateTCPChecksum(srcIP, dstIP, tcpHeader, bytes) ==
    LET pseudoHeader == PseudoHeader(srcIP, dstIP, IPPROTO_TCP, Len(tcpHeader) + Len(bytes))
    IN  Not16(Fold(SumPairs(pseudoHeader, 0) + SumPairs(tcpHeader, 0)
                   + SumPairs(bytes, 0) + OddByte(bytes)))

calculateUDPChecksum(srcIP, dstIP, udpHeader, bytes) ==
    LET pseudoHeader == PseudoHeader(srcIP, dstIP, IPPROTO_UDP, Len(udpHeader) + Len(bytes))
    IN  Not16(Fold(SumPairs(pseudoHeader, 0) + SumPairs(udpHeader, 0)
                   + SumPairs(bytes, 0) + OddByte(bytes)))

\* sendTCPPacket: the TCP header of packet pkt with cks in its checksum field
TCPHeader(pkt, cks) ==
    U16Bytes(pkt.srcPort) \o U16Bytes(pkt.dstPort) \o U32Bytes(pkt.seq) \o U32Bytes(pkt.ack)
    \o <<5 * 16, pkt.flags>> \o U16Bytes(65535) \o U16Bytes(cks) \o U16Bytes(0)

\* A UDP header whose length field counts the payload alone
UDPHeaderPayloadLength(pkt, cks) ==
    U16Bytes(pkt.srcPort) \o U16Bytes(pkt.dstPort) \o U16Bytes(pkt.len % Two16)
    \o U16Bytes(cks)

\* Write, UDP branch: the UDP header of packet pkt with cks in its checksum field
UDPHeader(pkt, cks) ==
    U16Bytes(pkt.srcPort) \o U16Bytes(pkt.dstPort) \o U16Bytes((8 + pkt.len) % Two16)
    \o U16Bytes(cks)

\* The IP header of packet pkt with cks in its checksum field
IPHeader(pkt, id, cks) ==
    <<69, 0>> \o U16Bytes(pkt.totalLen) \o U16Bytes(id) \o U16Bytes(0)
    \o <<64, pkt.proto>> \o U16Bytes(cks) \o SourceIP \o TargetIP

\* The bytes handed to Sendto for packet pkt carrying bytes, and the
\* pseudo-header its transport checksum was computed with
BuiltPacket(pkt, id, bytes) ==
    LET l4zero == IF pkt.proto = IPPROTO_TCP THEN TCPHeader(pkt, 0) ELSE UDPHeader(pkt, 0)
        l4cks  == IF pkt.proto = IPPROTO_TCP
                  THEN calculateTCPChecksum(SourceIP, TargetIP, l4zero, bytes)
                  ELSE calculateUDPChecksum(SourceIP, TargetIP, l4zero, bytes)
        l4     == IF pkt.proto = IPPROTO_TCP THEN TCPHeader(pkt, l4cks) ELSE UDPHeader(pkt, l4cks)
        ip     == IPHeader(pkt, id, calculateIPChecksum(IPHeader(pkt, id, 0)))
    IN  [fn |-> "packet", proto |-> pkt.proto, ip |-> ip, l4 |-> l4, bytes |-> bytes,
         pseudo |-> PseudoHeader(SourceIP, TargetIP, pkt.proto, Len(l4) + Len(bytes))]

\* Connections a packet is built for: the fields sendTCPPacket reads
BuilderConns ==
    { [srcPort |-> EphemeralPort(t), seqNum |-> s, ackNum |-> a] :
         t \in Clocks, s \in Clocks, a \in Clocks }

\* The calls followed: sendTCPPacket(flags, bytes) on a connection, and the
\* UDP branch of Write(bytes) at time t; id is the clock value of the ID field.
BuilderInit ==
    /\ arg \in { [fn |-> "sendTCPPacket", conn |-> conn, flags |-> flags,
                  bytes |-> bytes, id |-> id] :
                 conn \in BuilderConns, flags \in {FlagSYN, FlagACK, FlagPSHACK},
                 bytes \in Payloads, id \in IPIdents }
           \cup { [fn |-> "WriteUDP", t |-> t, bytes |-> bytes, id |-> id] :
                 t \in Clocks, bytes \in Payloads, id \in IPIdents }
    /\ res = NoRes

sendTCPPacket ==
    /\ arg.fn = "sendTCPPacket" /\ res = NoRes
    /\ res' = BuiltPacket(TCPPacket(arg.conn, arg.flags, Len(arg.bytes)), arg.id, arg.bytes)
    /\ UNCHANGED <<arg, connVars, poolVars, limVars>>

WriteUDPPacket ==
    /\ arg.fn = "WriteUDP" /\ res = NoRes
    /\ res' = BuiltPacket(UDPPacket(arg.t, Len(arg.bytes)), arg.id, arg.bytes)
    /\ UNCHANGED <<arg, connVars, poolVars, limVars>>

BuilderNext == sendTCPPacket \/ WriteUDPPacket

\* The checksum routines of the Windows build (sender.go), which sum the
\* concatenation pseudo-header + header + payload in one run.

\* calculateChecksum, the loop: `for i := 0; i < len(data); i += 2`, with the
\* last byte of an odd length as the high byte of a word, from index k on
RECURSIVE CombinedSum(_, _)
CombinedSum(b, k) ==
    IF k >= Len(b) THEN 0
    ELSE IF k + 1 < Len(b)
    THEN At(b, k) * Two8 + At(b, k + 1) + CombinedSum(b, k + 2)
    ELSE At(b, k) * Two8

\* calculateChecksum: the sum folded, `uint16(^sum)`
calculateChecksum(b) == Not16(Fold(CombinedSum(b, 0)))

\* RawSocketConn.calculateTCPChecksum / calculateUDPChecksum of the Windows
\* build, for a connection with these addresses
windowsChecksum(srcIP, dstIP, proto, header, bytes) ==
    LET pseudoHeader == PseudoHeader(srcIP, dstIP, proto, Len(header) + Len(bytes))
        combined     == (pseudoHeader \o header) \o bytes
    IN  calculateChecksum(combined)

\* Longest header of the byte strings a checksum routine is called with,
\* beside the 20-byte TCP and the 8-byte UDP header of a built packet.
MaxHeader == 3

\* Headers a checksum routine is called with: every short byte string, a
\* TCP header and a UDP header as the builders make them
Headers ==
    BytesUpTo(MaxHeader)
    \cup { TCPHeader(TCPPacket([srcPort |-> 40000, seqNum |-> <<1, 65535>>,
                                 ackNum |-> <<65535, 0>>], FlagPSHACK, n), 0) :
              n \in 0..MaxPayload }
    \cup { UDPHeader(UDPPacket(<<65535, 32768>>, n), 0) : n \in 0..MaxPayload }

\* The calls followed: one call of a transport checksum routine in each build
ChecksumInit ==
    /\ arg \in { [fn |-> "checksum", proto |-> proto, srcIP |-> srcIP, dstIP |-> dstIP,
                  header |-> header, bytes |-> bytes] :
                 proto \in {IPPROTO_TCP, IPPROTO_UDP},
                 srcIP \in {SourceIP, LocalIP}, dstIP \in {TargetIP},
                 header \in Headers, bytes \in Payloads }
    /\ res = NoRes

ChecksumTCP ==
    /\ arg.fn = "checksum" /\ arg.proto = IPPROTO_TCP /\ res = NoRes
    /\ res' = [fn |-> "checksums",
               linux |-> calculateTCPChecksum(arg.srcIP, arg.dstIP, arg.header, arg.bytes),
               windows |-> windowsChecksum(arg.srcIP, arg.dstIP, IPPROTO_TCP,
                                            arg.header, arg.bytes)]
    /\ UNCHANGED <<arg, connVars, poolVars, limVars>>

ChecksumUDP ==
    /\ arg.fn = "checksum" /\ arg.proto = IPPROTO_UDP /\ res = NoRes
    /\ res' = [fn |-> "checksums",
               linux |-> calculateUDPChecksum(arg.srcIP, arg.dstIP, arg.header, arg.bytes),
               windows |-> windowsChecksum(arg.srcIP, arg.dstIP, IPPROTO_UDP,
                                            arg.header, arg.bytes)]
    /\ UNCHANGED <<arg, connVars, poolVars, limVars>>

ChecksumNext == ChecksumTCP \/ ChecksumUDP

\* Payload lengths handed to Write: short ones, and the ones around 2^16
MaxSmallLen == 20

NearLimit == 50

PayloadLens ==
    (0..MaxSmallLen) \cup { Two16 - k : k \in 1..NearLimit }
                    \cup { Two16 + k : k \in 0..NearLimit }

\* syscall.Sendto on the raw socket: a datagram longer than the 16-bit IP total
\* length can say is refused by the kernel (EMSGSIZE) and Write returns the
\* error; a shorter one is sent or not
SendtoTakes(packetLen) == packetLen < Two16

LengthInit ==
    /\ arg \in { [fn |-> "Write", proto |-> proto, n |-> n] :
                 proto \in {IPPROTO_TCP, IPPROTO_UDP}, n \in PayloadLens }
    /\ res = NoRes

\* Write, tcp branch after the handshake: sendTCPPacket(PSH|ACK, data) with
\* len(data) = arg.n
LengthsTCP(ok) ==
    /\ arg.fn = "Write" /\ arg.proto = IPPROTO_TCP /\ res = NoRes
    /\ LET pkt       == TCPPacket(c, FlagPSHACK, arg.n)
           tcpHeader == TCPHeader(pkt, 0)
           pseudo    == PseudoHeader(SourceIP, TargetIP, IPPROTO_TCP,
                                     Len(tcpHeader) + arg.n)
           packetLen == Len(IPHeader(pkt, 0, 0)) + Len(tcpHeader) + arg.n
       IN  /\ ok => SendtoTakes(packetLen)
           /\ res' = [fn |-> "Write", ok |-> ok,
                      n |-> IF ok THEN arg.n ELSE 0,
                      headerLen |-> Len(tcpHeader),
                      segmentLen |-> BigEndianUint16(pseudo, 10),
                      totalLen |-> BigEndianUint16(IPHeader(pkt, 0, 0), 2),
                      packetLen |-> packetLen]
    /\ UNCHANGED <<arg, connVars, poolVars, limVars>>

\* Write, udp branch with len(data) = arg.n
LengthsUDP(ok) ==
    /\ arg.fn = "Write" /\ arg.proto = IPPROTO_UDP /\ res = NoRes
    /\ LET pkt       == UDPPacket(<<0, 0>>, arg.n)
           udpHeader == UDPHeader(pkt, 0)
           pseudo    == PseudoHeader(SourceIP, TargetIP, IPPROTO_UDP,
                                     Len(udpHeader) + arg.n)
           packetLen == Len(IPHeader(pkt, 0, 0)) + Len(udpHeader) + arg.n
       IN  /\ ok => SendtoTakes(packetLen)
           /\ res' = [fn |-> "Write", ok |-> ok,
                      n |-> IF ok THEN arg.n ELSE 0,
                      headerLen |-> Len(udpHeader),
                      udpLen |-> BigEndianUint16(udpHeader, 4),
                      segmentLen |-> BigEndianUint16(pseudo, 10),
                      totalLen |-> BigEndianUint16(IPHeader(pkt, 0, 0), 2),
                      packetLen |-> packetLen]
    /\ UNCHANGED <<arg, connVars, poolVars, limVars>>

LengthsNext == \E ok \in BOOLEAN : LengthsTCP(ok) \/ LengthsUDP(ok)

-----------------------------------------------------------------------------
(* Message codec.  A Go string is the sequence of its characters. *)

\* The largest priority: Facility 23 * 8 + Severity 7
MaxPriority == 191

\* fmt's %d of a non-negative int
RECURSIVE Itoa(_)
Itoa(n) ==
    LET Digits == << "0", "1", "2", "3", "4", "5", "6", "7", "8", "9" >>
    IN  IF n < 10 THEN << Digits[n + 1] >>
        ELSE Itoa(n \div 10) \o << Digits[(n % 10) + 1] >>

\* The label that stands for an empty tag
DefaultTag == << "s", "y", "s", "l", "o", "g", "_", "s", "e", "n", "d", "e", "r" >>

\* Message (the Timestamp is fixed: 9 March 2024, 07:08:09.123 UTC), with a
\* Hostname, a Tag and a PID that are empty or not, and a Content with and
\* without spaces and a colon
Messages ==
    [ Priority : 0..MaxPriority,
      Hostname : { <<>>, << "h", "1" >> },
      Tag      : { <<>>, << "a", "p", "p" >> },
      PID      : { <<>>, << "4", "2" >> },
      Content  : { << "o", "k" >>, << "a", " ", "b", ":", " ", "c" >> },
      Format   : { "rfc3164", "rfc5424" } ]

\* formatRFC3164: <Priority>Timestamp Hostname Tag[PID]: Content, the
\* timestamp in the layout "Jan 02 15:04:05"
formatRFC3164(m) ==
    LET timestamp == << "M", "a", "r", " ", "0", "9", " ",
                        "0", "7", ":", "0", "8", ":", "0", "9" >>
        withPID == IF m.PID # <<>> THEN m.Tag \o << "[" >> \o m.PID \o << "]" >>
                   ELSE m.Tag
        tagPart == IF withPID = <<>> THEN DefaultTag ELSE withPID
    IN  << "<" >> \o Itoa(m.Priority) \o << ">" >> \o timestamp \o << " " >>
           \o m.Hostname \o << " " >> \o tagPart \o << ":", " " >> \o m.Content

\* formatRFC5424: <Priority>1 Timestamp Hostname App-Name ProcID MsgID
\* Structured-Data Msg, the timestamp in UTC in the layout
\* "2006-01-02T15:04:05.000Z"
formatRFC5424(m) ==
    LET timestamp == << "2", "0", "2", "4", "-", "0", "3", "-", "0", "9", "T",
                        "0", "7", ":", "0", "8", ":", "0", "9", ".", "1", "2", "3", "Z" >>
        hostname == IF m.Hostname = <<>> THEN << "-" >> ELSE m.Hostname
        appName  == IF m.Tag = <<>> THEN DefaultTag ELSE m.Tag
        procID   == IF m.PID = <<>> THEN << "-" >> ELSE m.PID
        msgID    == << "-" >>
        structuredData == << "-" >>
    IN  << "<" >> \o Itoa(m.Priority) \o << ">", "1", " " >> \o timestamp \o << " " >>
           \o hostname \o << " " >> \o appName \o << " " >> \o procID \o << " " >>
           \o msgID \o << " " >> \o structuredData \o << " " >> \o m.Content

\* Message.Format
Format(m) == IF m.Format = "rfc5424" THEN formatRFC5424(m) ELSE formatRFC3164(m)

\* The decoder (ParseRFC5424 and ParseRFC3164 of package syslog, which the
\* receiving server calls): a structural match per format.

\* s cut at its first n occurrences of ch: n fields and the rest (fewer when
\* s has fewer occurrences)
RECURSIVE Fields(_, _, _)
Fields(s, n, ch) ==
    IF n = 0 \/ \A k \in 1..Len(s) : s[k] # ch THEN << s >>
    ELSE LET k == CHOOSE j \in 1..Len(s) : s[j] = ch /\ \A h \in 1..(j - 1) : s[h] # ch
         IN  << SubSeq(s, 1, k - 1) >> \o Fields(SubSeq(s, k + 1, Len(s)), n - 1, ch)

\* "<PRI>" at the start of the line, PRI a decimal number of up to three
\* digits: the priority and what follows it
ParsePriority(line) ==
    LET f   == Fields(line, 1, ">")
        pri == IF f[1] = <<>> THEN <<>> ELSE SubSeq(f[1], 2, Len(f[1]))
    IN  IF /\ Len(f) = 2 /\ f[1] # <<>> /\ f[1][1] = "<"
           /\ \E n \in 0..999 : Itoa(n) = pri
        THEN [ok |-> TRUE, pri |-> CHOOSE n \in 0..999 : Itoa(n) = pri, rest |-> f[2]]
        ELSE [ok |-> FALSE, pri |-> 0, rest |-> <<>>]

\* <PRI>1 TIMESTAMP HOSTNAME APP-NAME PROCID MSGID STRUCTURED-DATA MSG; a
\* field equal to '-' decodes to the empty string
ParseRFC5424(line) ==
    LET pr == ParsePriority(line)
        f  == Fields(pr.rest, 7, " ")
        Undash(x) == IF x = << "-" >> THEN <<>> ELSE x
    IN  IF pr.ok /\ Len(f) = 8 /\ f[1] = << "1" >> /\ \A k \in 2..7 : f[k] # <<>>
        THEN [Priority |-> pr.pri, Hostname |-> Undash(f[3]), Tag |-> Undash(f[4]),
              PID |-> Undash(f[5]), Content |-> f[8], Format |-> "rfc5424"]
        ELSE [error |-> "ParseError"]

\* <PRI>Mmm dd hh:mm:ss HOSTNAME TAG[PID]: CONTENT, the [PID] optional
ParseRFC3164(line) ==
    LET pr   == ParsePriority(line)
        r    == pr.rest
        f    == Fields(SubSeq(r, 17, Len(r)), 1, " ")
        g    == IF Len(f) = 2 THEN Fields(f[2], 1, ":") ELSE << <<>> >>
        t    == Fields(g[1], 1, "[")
    IN  IF /\ pr.ok
           /\ Len(r) >= 16 /\ r[4] = " " /\ r[7] = " " /\ r[10] = ":" /\ r[13] = ":"
           /\ r[16] = " "
           /\ Len(f) = 2 /\ Len(g) = 2
           /\ g[2] # <<>> /\ g[2][1] = " "
           /\ Len(t) = 2 => (t[2] # <<>> /\ t[2][Len(t[2])] = "]")
        THEN [Priority |-> pr.pri, Hostname |-> f[1], Tag |-> t[1],
              PID |-> IF Len(t) = 2 THEN SubSeq(t[2], 1, Len(t[2]) - 1) ELSE <<>>,
              Content |-> SubSeq(g[2], 2, Len(g[2])), Format |-> "rfc3164"]
        ELSE [error |-> "ParseError"]

\* Decode: the RFC5424 match first, then the RFC3164 one
Decode(line) ==
    IF ParseRFC5424(line) # [error |-> "ParseError"] THEN ParseRFC5424(line)
    ELSE ParseRFC3164(line)

\* The sender encodes the message
Encode ==
    /\ arg.fn = "Format" /\ res = NoRes
    /\ res' = [fn |-> "encoded", line |-> Format(arg.m)]
    /\ UNCHANGED <<arg, connVars, poolVars, limVars>>

\* The receiver decodes the line
DecodeLine ==
    /\ res.fn = "encoded"
    /\ res' = [fn |-> "decoded", line |-> res.line, m |-> Decode(res.line)]
    /\ UNCHANGED <<arg, connVars, poolVars, limVars>>

CodecNext == Encode \/ DecodeLine

-----------------------------------------------------------------------------
(* Specifications *)

\* One RawSocketConn, used by one caller at a time; no pool is built.
InitConn ==
    /\ ConnInit
    /\ PoolStart("tcp", ForeignSourceIP, 1)
    /\ LimiterStart(1, 1)
    /\ FnStart

SpecConn == InitConn /\ [][ConnNext]_vars

\* The pool and the workers of one Sender; the connection of SpecConn stays
\* as constructed.
InitPool ==
    /\ PoolInit
    /\ ConnInit
    /\ c.protocol = "tcp"
    /\ LimiterStart(1, 1)
    /\ FnStart

SpecPool == InitPool /\ [][PoolNext]_vars

\* The pool with Get and Put taken step by step under the read lock, and
\* Stop closing it while the workers send.
SpecLock == InitPool /\ [][LockNext]_vars

\* What is left of worker k's goroutine once it has begun a message or the
\* signal has fired: leave the loop, take the read lock, finish Get, have
\* Write return, finish Put.
WorkerStep(k) ==
    \/ Exit(k)
    \/ GetRLock(k)
    \/ \E rd \in GetProbes, out \in CreateOutcomes(p, Len(conns)) : GetBody(k, rd, out)
    \/ \E ok \in BOOLEAN : Write(k, ok)
    \/ PutRLock(k)
    \/ \E rd \in PutProbes(k) : PutBody(k, rd)

\* One run of the program: cmd/root.go builds the Sender (its pool holds
\* config.Concurrency connections), calls Start and never calls Stop; the
\* cancellation signal is the deadline of the context.
InitRun ==
    /\ InitPool
    /\ p.maxSize = NumWorkers

RunNext ==
    \/ \E outs \in [1..p.maxSize -> CreateOutcomes(p, 0)] : NewSender(outs)
    \/ Start
    \/ StartReturns
    \/ Deadline
    \/ \E k \in Workers : Exit(k)
    \/ \E k \in Workers, ok \in BOOLEAN : Iterate(k, ok)
    \/ \E k \in Workers : GetRLock(k)
    \/ \E k \in Workers, rd \in GetProbes, out \in CreateOutcomes(p, Len(conns)) :
          GetBody(k, rd, out)
    \/ \E k \in Workers, ok \in BOOLEAN : Write(k, ok)
    \/ \E k \in Workers : PutRLock(k)
    \/ \E k \in Workers : \E rd \in PutProbes(k) : PutBody(k, rd)
    \/ \E id \in 1..MaxConns : PeerCloses(id)

\* The goroutines are scheduled: a sendWorker that can take its next step
\* takes it (every call it makes returns), and wg.Wait() returns once it can.
\* Nothing makes a worker begin another message.
FairRun ==
    /\ \A k \in Workers : WF_vars(WorkerStep(k))
    /\ WF_vars(StartReturns)

SpecRun == InitRun /\ [][RunNext]_vars /\ FairRun

\* The connection factory of one pool, called any number of times.
InitFactory ==
    /\ FactoryInit
    /\ ConnInit
    /\ c.protocol = "tcp"
    /\ LimiterStart(1, 1)
    /\ FnStart

SpecFactory == InitFactory /\ [][FactoryNext]_vars

\* One packet built by sendTCPPacket or by the UDP branch of Write.
InitBuilder ==
    /\ BuilderInit
    /\ ConnInit
    /\ c.protocol = "tcp"
    /\ PoolStart("tcp", ForeignSourceIP, 1)
    /\ LimiterStart(1, 1)

SpecBuilder == InitBuilder /\ [][BuilderNext]_vars

\* One call of a transport checksum routine, in the Linux and in the Windows
\* build.
InitChecksum ==
    /\ ChecksumInit
    /\ ConnInit
    /\ c.protocol = "tcp"
    /\ PoolStart("tcp", ForeignSourceIP, 1)
    /\ LimiterStart(1, 1)

SpecChecksum == InitChecksum /\ [][ChecksumNext]_vars

\* One Write of a payload of a given length on an established connection.
InitLengths ==
    /\ LengthInit
    /\ ConnInit
    /\ c.protocol = "tcp"
    /\ PoolStart("tcp", ForeignSourceIP, 1)
    /\ LimiterStart(1, 1)

SpecLengths == InitLengths /\ [][LengthsNext]_vars

\* One message encoded by Message.Format, then decoded by the receiver.
InitCodec ==
    /\ arg \in { [fn |-> "Format", m |-> m] : m \in Messages }
    /\ res = NoRes
    /\ ConnInit
    /\ c.protocol = "tcp"
    /\ PoolStart("tcp", ForeignSourceIP, 1)
    /\ LimiterStart(1, 1)

SpecCodec == InitCodec /\ [][CodecNext]_vars

\* One RateLimiter and the goroutines that call Wait on it; the connection
\* and the pool stay as constructed.
InitLimiter ==
    /\ LimiterInit
    /\ ConnInit
    /\ c.protocol = "tcp"
    /\ PoolStart("tcp", ForeignSourceIP, 1)
    /\ FnStart

SpecLimiter == InitLimiter /\ [][LimiterNext]_vars

\* The limiter with callers of Wait, reconfigured and read while it runs.
InitReconf ==
    /\ \E ratePerSecond \in Rates : LimiterStart(ratePerSecond, 1)
    /\ ConnInit
    /\ c.protocol = "tcp"
    /\ PoolStart("tcp", ForeignSourceIP, 1)
    /\ FnStart

SpecReconf == InitReconf /\ [][ReconfNext]_vars

-----------------------------------------------------------------------------
(* Properties of the handshake engine and of Write (checked under SpecConn) *)

Timeouts(rs) == Cardinality({ k \in 1..Len(rs) : rs[k] = "timeout" })

AllTimedOut(rs) == rs # <<>> /\ \A k \in 1..Len(rs) : rs[k] = "timeout"

HandshakeReturned == pc = "idle" /\ reads # <<>>

FlagsOf(w) == [k \in 1..Len(w) |-> w[k].flags]

CountFlag(w, f) == Cardinality({ k \in 1..Len(w) : w[k].proto = IPPROTO_TCP /\ w[k].flags = f })

\* C2: when every read of a handshake has ended in a timeout, the handshake
\* returns only after exactly 5 reads, with the handshake-timeout error; it
\* never makes a 6th read.
C2_FiveTimeoutsThenFailed ==
    /\ Len(reads) <= 5
    /\ (HandshakeReturned /\ AllTimedOut(reads))
          => (Len(reads) = 5 /\ ret = Return(0, ErrNoSynAck) /\ ~c.connected)

\* reads k-1 timeouts followed by a valid SYN+ACK
TimeoutsThenSynAck(rs) ==
    /\ rs # <<>>
    /\ rs[Len(rs)] = "synack"
    /\ \A k \in 1..(Len(rs) - 1) : rs[k] = "timeout"

\* C3: after k-1 timed-out reads (k <= 5) the engine makes read k, and when
\* that read receives a valid SYN+ACK the engine sends exactly one ACK, sets
\* connected and reads no more.
C3_SynAckOnAttemptK ==
    /\ (AllTimedOut(reads) /\ Len(reads) < 5) => pc = "recv"
    /\ (TimeoutsThenSynAck(reads) /\ Len(reads) <= 5 /\ ret.err # ErrSendACK)
          => (pc = "idle" /\ c.connected /\ CountFlag(wire, FlagACK) = 1)

\* C4: a connection is established only by a datagram that is IPv4, carries
\* TCP, is addressed to the spoofed source IP, comes from the target port to
\* the ephemeral port and has flags exactly 0x12.
C4_EstablishedOnlyBySynAck ==
    c.connected => (reads # <<>> /\ reads[Len(reads)] = "synack")

\* C5: a datagram that fails the filter uses up no attempt: the attempts used
\* so far are the reads that waited out their deadline, and the handshake
\* gives up only after 5 of those.
C5_DiscardKeepsAttempt ==
    /\ pc = "recv" => i = Timeouts(reads)
    /\ (pc = "idle" /\ ret.err = ErrNoSynAck) => Timeouts(reads) = 5

\* (S + 1) mod 2^32
Succ32(v) == IF v[2] = 65535 THEN << (v[1] + 1) % 65536, 0 >> ELSE << v[1], v[2] + 1 >>

\* C6: after a valid SYN+ACK with sequence number S the acknowledgment number
\* is (S + 1) mod 2^32, and the ACK and the data packets carry it.
C6_AckIsPeerSeqPlusOne ==
    (c.connected /\ reads # <<>> /\ reads[Len(reads)] = "synack")
       => /\ c.ackNum = Succ32(last.seq)
          /\ \A k \in 1..Len(wire) :
                wire[k].flags \in {FlagACK, FlagPSHACK}
                   => wire[k].ack = Succ32(last.seq)

\* C7: the source port of a handshake and of every UDP datagram is in
\* 32768..65535.
C7_EphemeralPortRange ==
    /\ pc = "recv" => c.srcPort \in 32768..65535
    /\ \A k \in 1..Len(wire) : wire[k].srcPort \in 32768..65535

\* a step that is a Write call on a connected TCP connection
IsWriteOnEstablished ==
    /\ pc = "idle" /\ nwrites' = nwrites + 1
    /\ c.protocol = "tcp" /\ c.connected /\ ~c.closed

\* C8: on an established TCP connection a successful Write of n bytes sends
\* one PSH+ACK packet carrying the current sequence number and advances the
\* sequence number by n modulo 2^32; a failed one returns 0 bytes with an
\* error and leaves the sequence number unchanged.
C8_WriteAdvancesSeq ==
    [][ IsWriteOnEstablished =>
          \/ /\ ret' = Return(data', NoErr)
             /\ Len(wire') = 1
             /\ wire'[1].proto = IPPROTO_TCP
             /\ wire'[1].flags = 24
             /\ wire'[1].seq = c.seqNum
             /\ wire'[1].len = data'
             /\ LET s == c.seqNum[2] + data'
                IN  c'.seqNum = << (c.seqNum[1] + (s \div 65536)) % 65536, s % 65536 >>
          \/ /\ ret'.n = 0 /\ ret'.err # NoErr
             /\ wire' = <<>>
             /\ c'.seqNum = c.seqNum ]_vars

\* a successful Write on an established connection whose sequence number
\* wraps around 2^32
C8_Witness ==
    /\ c.connected /\ nwrites = 2
    /\ ret = Return(3, NoErr)
    /\ Len(wire) = 1 /\ wire[1].flags = 24 /\ wire[1].seq = <<65535, 65535>>
    /\ c.seqNum = <<0, 2>>

\* C9: on TCP the first Write starts with the SYN of the handshake and data
\* is sent only once connected; once connected no Write sends a SYN; on UDP
\* no Write sends a SYN or reads, and a successful Write sends exactly one
\* IP+UDP datagram.
C9_HandshakeOnFirstUseOnly ==
    /\ [][ (c.connected /\ wire' # wire) => CountFlag(wire', FlagSYN) = 0 ]_vars
    /\ [][ (c.protocol = "tcp" /\ ~c.connected /\ ~c.closed /\ nwrites' = nwrites + 1)
              => (wire' = <<>> \/ (wire'[1].flags = FlagSYN /\ Len(wire') = 1)) ]_vars
    /\ [] ( c.protocol = "tcp" =>
              /\ CountFlag(wire, FlagPSHACK) > 0 => c.connected
              /\ \A k \in 1..Len(wire) : wire[k].flags = FlagSYN => k = 1 )
    /\ [] ( c.protocol = "udp" =>
              /\ pc = "idle" /\ reads = <<>>
              /\ \A k \in 1..Len(wire) : wire[k].proto = IPPROTO_UDP
              /\ (nwrites > 0 /\ ret.err = NoErr) => Len(wire) = 1 )

\* a second Write on a connection that the first Write established
C9_Witness ==
    /\ c.protocol = "tcp" /\ c.connected /\ nwrites = 2
    /\ reads # <<>>
    /\ ret.err = NoErr
    /\ FlagsOf(wire) = << FlagPSHACK >>

-----------------------------------------------------------------------------
(* Properties of the pool (checked under SpecPool) *)

\* Worker k has a connection from Get that its Put has not yet disposed of.
Holds(k) == workers[k].conn # NoConn

\* Worker k is inside conn.Write.
Writing(k) == workers[k].pc = "write"

\* C1: in every interleaving of Get, Put and Close, no connection is held by
\* two callers at once, and a connection that a caller holds is not on the
\* free queue (so no other Get can return it before its holder's Put); hence
\* no two Writes are in progress on one connection.
C1_OneHolderPerConnection ==
    /\ \A k1 \in Workers, k2 \in Workers :
          (k1 # k2 /\ Holds(k1) /\ Holds(k2)) => workers[k1].conn # workers[k2].conn
    /\ \A k \in Workers : Holds(k) => workers[k].conn \notin Range(p.connections)
    /\ \A a \in 1..Len(p.connections), b \in 1..Len(p.connections) :
          a # b => p.connections[a] # p.connections[b]
    /\ \A k1 \in Workers, k2 \in Workers :
          (k1 # k2 /\ Writing(k1) /\ Writing(k2)) => workers[k1].conn # workers[k2].conn

\* Two workers write at the same time, on spoofed connections, one of which
\* went through the free queue, while Close waits for the lock.
C1_Witness ==
    /\ \A k \in Workers : Writing(k) /\ conns[workers[k].conn].kind = "raw"
    /\ \E k \in Workers : workers[k].conn <= p.maxSize
    /\ sender.Sent + sender.Failed > 0
    /\ sender.stop = "close"

\* The peer of the connection is alive and the connection is not closed.
StillValid(conn) == ~conn.closed /\ ~conn.peerClosed

\* Worker k's Get returns in this step.
GetReturns(k) == workers[k].pc = "getting" /\ workers'[k].pc # "getting"

\* Worker k's Put returns in this step.
PutReturns(k) == workers[k].pc = "putting" /\ workers'[k].pc # "putting"

\* C10: a Get that finds a still-valid connection at the head of the free
\* queue of an open pool returns that connection and creates none; a Put of
\* a still-valid connection to an open pool whose queue has room puts it
\* back on the queue, so that Get, Put, Get by one caller reuses it.  For
\* dialed and spoofed connections, TCP and UDP.
C10_GetPutGetReuses ==
    /\ [][\A k \in Workers :
            (/\ GetReturns(k)
             /\ ~p.closed
             /\ p.connections # <<>>
             /\ StillValid(conns[Head(p.connections)]))
            => (/\ workers'[k].conn = Head(p.connections)
                /\ Len(conns') = Len(conns))]_vars
    /\ [][\A k \in Workers :
            (/\ PutReturns(k)
             /\ ~p.closed
             /\ Len(p.connections) < p.maxSize
             /\ StillValid(conns[workers[k].conn]))
            => (/\ p'.connections = Append(p.connections, workers[k].conn)
                /\ ~conns'[workers[k].conn].closed)]_vars

\* Close has been called on the pool: the call is waiting for the lock or
\* has returned.
CloseCalled ==
    \/ sender.stop = "locked"
    \/ sender.stops > 1
    \/ (sender.stops = 1 /\ sender.stop = "idle")

\* Worker k's Get acquires the read lock in this step.
GetBegins(k) == workers[k].pc = "get" /\ workers'[k].pc = "getting"

\* C11: a Get that begins after Close has been called finds the pool closed
\* (the pool never reopens), and a Get on a closed pool returns the error: no
\* connection, none taken from the queue, none created.
C11_GetAfterCloseFails ==
    /\ [][\A k \in Workers : (GetBegins(k) /\ CloseCalled) => p.closed]_vars
    /\ [][p.closed => p'.closed]_vars
    /\ [][\A k \in Workers :
            (GetReturns(k) /\ p.closed)
            => (/\ workers'[k].conn = NoConn
                /\ workers'[k].pc = "loop"
                /\ conns' = conns
                /\ p' = p)]_vars

\* A Get holds the read lock of a pool that Stop has closed, while the other
\* worker is still between its Get and its Put.
C11_Witness ==
    /\ p.closed /\ sender.phase = "running" /\ CloseCalled
    /\ \E k1 \in Workers, k2 \in Workers :
          /\ workers[k1].pc = "getting"
          /\ workers[k2].pc \in {"write", "put"}

\* The Close call of Stop returns in this step.
CloseReturns == sender.stop = "locked" /\ sender'.stop = "idle"

\* C12: a Close of an open pool marks it closed, empties the free queue and
\* closes every connection that was on it (each was open) and no other; a
\* Close of a closed pool changes neither the pool nor any connection.
C12_CloseOnce ==
    /\ [][(CloseReturns /\ ~p.closed)
            => (/\ p'.closed
                /\ p'.connections = <<>>
                /\ Len(conns') = Len(conns)
                /\ \A j \in 1..Len(p.connections) :
                      /\ ~conns[p.connections[j]].closed
                      /\ conns'[p.connections[j]].closed
                /\ \A id \in 1..Len(conns) :
                      (\A j \in 1..Len(p.connections) : p.connections[j] # id)
                         => conns'[id] = conns[id])]_vars
    /\ [][(CloseReturns /\ p.closed) => (p' = p /\ conns' = conns)]_vars

\* Stop was called twice on a Sender that was never started: the first Close
\* closed the full queue, the second has returned.
C12_Witness ==
    /\ sender.phase = "ready"
    /\ sender.stops = 2 /\ sender.stop = "idle"
    /\ p.closed /\ p.connections = <<>>
    /\ Len(conns) = NumWorkers
    /\ \A id \in 1..Len(conns) : conns[id].closed

\* C13: NewConnectionPool with capacity N returns a pool whose free queue
\* holds N open connections, or, a creation having failed, returns no pool
\* and leaves every connection it had created (fewer than N) closed; a pool
\* that was returned never had fewer than N connections.
C13_AllOrNothing ==
    /\ sender.phase = "new" => conns = <<>>
    /\ (sender.phase = "ready" /\ sender.stops = 0)
          => /\ ~p.closed
             /\ p.connections = [k \in 1..p.maxSize |-> k]
             /\ Len(conns) = p.maxSize
             /\ \A id \in 1..Len(conns) :
                   ~conns[id].closed /\ conns[id].kind \in {"raw", "dial"}
    /\ sender.phase = "failed"
          => /\ p.connections = <<>>
             /\ Len(conns) < p.maxSize
             /\ \A id \in 1..Len(conns) : conns[id].closed
             /\ \A k \in Workers : workers[k].pc = "unborn"
    /\ sender.phase \notin {"new", "failed"} => Len(conns) >= p.maxSize

\* The second of two creations failed: no pool, the first connection closed.
C13_Witness ==
    /\ sender.phase = "failed"
    /\ p.maxSize = 2
    /\ Len(conns) = 1 /\ conns[1].closed

\* The probe of Put can pass for this connection.
CanPassProbe(conn) == \E rd \in Probes(p, conn) : isConnectionValid(p, rd)

C15_AliveIffTimeout ==
    /\ [][\A k \in Workers :
            (GetReturns(k) /\ ~p.closed /\ p.connections # <<>>)
            => \A rd \in Probes(p, conns[Head(p.connections)]) :
                  isConnectionValid(p, rd) = (p.protocol = "udp" \/ rd = "timeout")]_vars
    /\ [][\A k \in Workers :
            (PutReturns(k) /\ ~p.closed)
            => \A rd \in Probes(p, conns[workers[k].conn]) :
                  isConnectionValid(p, rd) = (p.protocol = "udp" \/ rd = "timeout")]_vars

\* C16: a Put that follows a failed Write closes the connection and leaves
\* the free queue as it is.
C16_FailedWriteDiscards ==
    [][\A k \in Workers :
         (PutReturns(k) /\ workers[k].err = ErrWriteData)
         => (/\ conns'[workers[k].conn].closed
             /\ p'.connections = p.connections)]_vars

\* sendMessage of worker k returns in this step: its Get failed, or its Put
\* has returned.
SendReturns(k) ==
    /\ workers[k].pc \in {"getting", "putting"}
    /\ workers'[k].pc = "loop"

\* The error sendMessage returns in this step.
SendError(k) == IF workers[k].pc = "getting" THEN ErrGet ELSE workers[k].err

-----------------------------------------------------------------------------
(* Properties of the RateLimiter (checked under SpecLimiter) *)

SingleCaller == DOMAIN callers = {1}

\* A Wait call returns in this step.
WaitReturned == hist'.granted = hist.granted + 1

\* A Wait call begins in this step (and may return in it).
WaitCalled ==
    \E w \in DOMAIN callers :
        /\ callers[w].pc = "idle"
        /\ WaitReturned \/ callers'[w].pc = "sleeping"

\* C17: with a single caller, every return of Wait after the first comes one
\* interval or more after the return before it.
C17_ReturnsOneIntervalApart ==
    [][(SingleCaller /\ WaitReturned /\ hist.granted >= 1)
       => clock - hist.last >= rl.interval]_vars

\* C18: with a single caller that has been idle for two intervals or more,
\* Wait returns in the step that calls it, moves the reference time by the
\* whole number of intervals elapsed, and leaves it less than one interval
\* behind the clock and never ahead of it; a Wait called at the time of that
\* return sleeps, and the next return comes later than that one.
C18_CatchUpWithoutBurst ==
    /\ [][(SingleCaller /\ WaitCalled /\ clock - hist.last >= 2 * rl.interval)
          => /\ WaitReturned
             /\ \E k \in 2..MaxClock :
                   /\ k * rl.interval <= clock - rl.lastTime
                   /\ clock - rl.lastTime < (k + 1) * rl.interval
                   /\ rl'.lastTime = rl.lastTime + k * rl.interval
             /\ rl'.lastTime <= clock
             /\ clock - rl'.lastTime < rl.interval]_vars
    /\ [][(SingleCaller /\ WaitCalled /\ hist.gap /\ hist.last = clock)
          => (~WaitReturned /\ callers'[1].pc = "sleeping" /\ callers'[1].wake > clock)]_vars
    /\ [][(SingleCaller /\ WaitReturned /\ hist.gap) => clock > hist.last]_vars

\* The caller idled for two intervals or more, its Wait returned at once, and
\* the Wait it called next is sleeping.
C18_Witness ==
    /\ SingleCaller
    /\ hist.gap
    /\ hist.granted >= 2
    /\ callers[1].pc = "sleeping"
    /\ hist.last < clock

\* C19: the number of Wait calls that have returned by time t is at most
\* (t - t0) / I, t0 the time the limiter was created.
C19_NeverFasterThanRate == hist.granted * rl.interval <= clock

-----------------------------------------------------------------------------
(* Properties of the Sender's run (checked under SpecRun) *)

AllExited == \A k \in Workers : workers[k].pc = "exited"

\* C21: Start has returned (EndTime is set) only when the cancellation signal
\* has fired and every worker has exited; a worker exits only in a step that
\* sees the signal; and once the signal has fired in a running Sender, Start
\* eventually returns with every worker exited.
C21_StartReturnsAfterWorkers ==
    /\ [](sender.phase = "ended" => (sender.done /\ AllExited))
    /\ [][\A k \in Workers :
            (workers[k].pc # "exited" /\ workers'[k].pc = "exited")
            => (sender.done /\ workers[k].pc = "loop")]_vars
    /\ ((sender.phase = "running" /\ sender.done)
           ~> (sender.phase = "ended" /\ AllExited))

\* Start has returned after the deadline passed while messages were being
\* sent.
C21_Witness ==
    /\ sender.phase = "ended"
    /\ sender.started = MaxMsgs
    /\ sender.Sent + sender.Failed = MaxMsgs

\* Messages generated and not yet counted: each is at one stage of one
\* worker's sendMessage.
InFlight ==
    Cardinality({ k \in Workers :
                    workers[k].pc \in {"get", "getting", "write", "put", "putting"} })

-----------------------------------------------------------------------------
(* Properties of the handshake engine under cancellation (checked under
   SpecConn) *)

\* C22: once the cancellation signal has fired, a handshake in progress
\* makes no further read attempt.
C22_NoReadAfterCancel ==
    [][(sender.done /\ pc = "recv") => Len(reads') <= Len(reads)]_vars

\* No read of the handshake received a valid SYN+ACK: every read timed out
\* or received some other datagram.
NoSynAckArrived(rs) ==
    rs # <<>> /\ \A k \in 1..Len(rs) : rs[k] \in {"timeout", "other"}

\* C24: a Write whose handshake received no valid SYN+ACK returns, after 5
\* read attempts, the handshake-timeout error and 0 bytes (which a TCP worker
\* counts as Failed, never as Sent), and leaves the connection unconnected.
C24_UnreachableIsHandshakeTimeout ==
    (HandshakeReturned /\ NoSynAckArrived(reads))
       => /\ Len(reads) = MaxRetries
          /\ ret = Return(0, ErrNoSynAck)
          /\ ~c.connected

\* C25: syscall.Close(c.fd) has been called once when the connection is
\* closed and never before; the first Close closes the descriptor, a later
\* Close calls syscall.Close no more, returns nil and changes nothing; a Write
\* on a closed connection returns 0 and the closed error, sends no packet,
\* makes no read and leaves the connection as it was.
C25_CloseOnceWriteFails ==
    /\ [](closes.fd = IF c.closed THEN 1 ELSE 0)
    /\ [][(closes'.calls = closes.calls + 1)
          => IF c.closed
             THEN c' = c /\ closes'.fd = closes.fd /\ closes'.err = NoErr
             ELSE c'.closed /\ closes'.fd = closes.fd + 1]_vars
    /\ [][(nwrites' = nwrites + 1 /\ c.closed)
          => /\ ret' = Return(0, ErrClosed)
             /\ wire' = <<>>
             /\ pc' = "idle"
             /\ reads' = reads
             /\ c' = c]_vars

\* An established TCP connection was closed twice, then written to.
C25_Witness ==
    /\ c.protocol = "tcp" /\ c.connected /\ c.closed
    /\ closes.calls = 2 /\ closes.fd = 1 /\ closes.err = NoErr
    /\ nwrites = 2
    /\ ret = Return(0, ErrClosed)
    /\ wire = <<>>

-----------------------------------------------------------------------------
(* Properties of the connection factory (checked under SpecFactory) *)

\* The source address is set and is neither a loopback address nor an address
\* of an interface of the sending host.
ForeignSource(pool) ==
    pool.sourceIP \notin {NoSourceIP, LoopbackSourceIP, "::1"} \cup InterfaceAddrs

-----------------------------------------------------------------------------
(* Properties of the packet builder (checked under SpecBuilder) *)

\* The sum of the 16-bit big-endian words of b, a trailing odd byte taken as
\* the high byte of a last word.
RECURSIVE WordSum(_)
WordSum(b) ==
    IF b = <<>> THEN 0
    ELSE IF Len(b) = 1 THEN b[1] * 256
    ELSE b[1] * 256 + b[2] + WordSum(SubSeq(b, 3, Len(b)))

\* The Internet checksum of b is 0: the one's-complement sum of its words is
\* 0xFFFF.
VerifiesAsZero(b) == WordSum(b) > 0 /\ WordSum(b) % 65535 = 0

\* C27: in every packet built, the Internet checksum recomputed over the IP
\* header with its checksum in place is 0, and so is the one recomputed over
\* pseudo-header + TCP or UDP header (checksum in place) + payload, for
\* payloads of even and of odd length.
C27_ChecksumsVerify ==
    res.fn = "packet" =>
       /\ calculateIPChecksum(res.ip) = 0
       /\ VerifiesAsZero(res.ip)
       /\ calculateIPChecksum(res.pseudo \o res.l4 \o res.bytes) = 0
       /\ VerifiesAsZero(res.pseudo \o res.l4 \o res.bytes)
       /\ res.proto = IPPROTO_TCP
            => calculateTCPChecksum(SourceIP, TargetIP, res.l4, res.bytes) = 0
       /\ res.proto = IPPROTO_UDP
            => calculateUDPChecksum(SourceIP, TargetIP, res.l4, res.bytes) = 0

\* A TCP packet with a payload of odd length whose sum needs folding was built.
C27_Witness ==
    /\ res.fn = "packet"
    /\ res.proto = IPPROTO_TCP
    /\ res.bytes = <<255, 255, 255>>
    /\ SumPairs(res.pseudo \o res.l4, 0) + SumPairs(res.bytes, 0) + OddByte(res.bytes) >= 2 * Two16

-----------------------------------------------------------------------------
(* Properties of the message codec (checked under SpecCodec) *)

\* The n-th of the space-separated tokens of line (empty when there are
\* fewer).
RECURSIVE Token(_, _)
Token(line, n) ==
    LET k == CHOOSE j \in 1..(Len(line) + 1) :
                /\ j = Len(line) + 1 \/ line[j] = " "
                /\ \A h \in 1..(j - 1) : line[h] # " "
    IN  IF n = 1 THEN SubSeq(line, 1, k - 1)
        ELSE IF k > Len(line) THEN <<>>
        ELSE Token(SubSeq(line, k + 1, Len(line)), n - 1)

\* C28: in the RFC5424 line (tokens: <PRI>1, timestamp, hostname, app-name,
\* procid, msgid, structured-data) an empty Hostname, an empty Tag and an
\* empty PID each give '-' as their token, and msgid and structured-data are
\* '-'.
C28_EmptyFieldsAreDash ==
    (res.fn = "encoded" /\ arg.m.Format = "rfc5424") =>
       /\ arg.m.Hostname = <<>> => Token(res.line, 3) = << "-" >>
       /\ arg.m.Tag = <<>> => Token(res.line, 4) = << "-" >>
       /\ arg.m.PID = <<>> => Token(res.line, 5) = << "-" >>
       /\ Token(res.line, 6) = << "-" >>
       /\ Token(res.line, 7) = << "-" >>

\* The tag of an RFC3164 line: its 5th token (after <PRI>Mmm, dd, hh:mm:ss
\* and the hostname) without the colon that ends it.
Tag3164(line) ==
    LET t == Token(line, 5)
    IN  IF t # <<>> /\ t[Len(t)] = ":" THEN SubSeq(t, 1, Len(t) - 1) ELSE t

\* C29: the tag of the RFC3164 line is the Tag, or the default label when
\* the Tag is empty, followed by [PID] when the PID is set and by nothing
\* when it is not; it is never empty and never starts with '['.
C29_TagFallsBackToDefault ==
    (res.fn = "encoded" /\ arg.m.Format = "rfc3164") =>
       LET label == IF arg.m.Tag = <<>>
                    THEN << "s","y","s","l","o","g","_","s","e","n","d","e","r" >>
                    ELSE arg.m.Tag
           pid   == IF arg.m.PID = <<>> THEN <<>> ELSE << "[" >> \o arg.m.PID \o << "]" >>
       IN  /\ Tag3164(res.line) = label \o pid
           /\ Tag3164(res.line) # <<>>
           /\ Tag3164(res.line)[1] # "["

\* C30: the message decoded from the encoded line has the Priority,
\* Hostname, Tag, PID, Content and Format of the message encoded.
C30_RoundTrip ==
    res.fn = "decoded" =>
       /\ res.m # [error |-> "ParseError"]
       /\ res.m.Priority = arg.m.Priority
       /\ res.m.Hostname = arg.m.Hostname
       /\ res.m.Tag = arg.m.Tag
       /\ res.m.PID = arg.m.PID
       /\ res.m.Content = arg.m.Content
       /\ res.m.Format = arg.m.Format

-----------------------------------------------------------------------------
(* Properties of SetRate and GetRate (checked under SpecReconf) *)

\* A step of SetRate: arg records a call it did not record before.
SetRateStep == arg'.fn = "SetRate" /\ arg' # arg

\* C31: SetRate(r) sets the rate to r and the interval to 1s/r and changes
\* nothing else of the limiter: the reference time lastTime, the sleeping
\* callers and the clock are as before; and a GetRate that follows, with no
\* other SetRate in between, returns r.
C31_SetRateKeepsReference ==
    /\ [][SetRateStep =>
            /\ rl'.rate = arg'.rate
            /\ rl'.interval = Second \div arg'.rate
            /\ rl'.lastTime = rl.lastTime
            /\ UNCHANGED <<clock, callers, hist>>]_vars
    /\ [](arg.fn = "SetRate" /\ res.fn = "GetRate" /\ res.n = arg.n
            => res.rate = arg.rate)

\* Witness of C31: the rate was set to 6 per second after the reference
\* time had moved, and the GetRate that followed returned 6.
C31_Witness ==
    /\ arg.fn = "SetRate" /\ arg.rate = 6 /\ arg.n = 1
    /\ res.fn = "GetRate" /\ res.rate = 6 /\ res.n = 1
    /\ rl.rate = 6 /\ rl.interval = 2 /\ rl.lastTime = 4

-----------------------------------------------------------------------------
(* Properties of the counters and of the workers' loop (checked under
   SpecPool) *)

\* Worker k completes in this step an iteration that got past the rate
\* limiter: its sendMessage returns, or its generateMessage failed.
Completes(k) ==
    \/ workers[k].pc \in {"getting", "putting"} /\ workers'[k].pc = "loop"
    \/ /\ workers[k].pc = "loop" /\ workers' = workers
       /\ sender'.started = sender.started + 1

\* Iterations completed so far: those started and no longer in progress.
Completed == sender.started - InFlight

\* C32: no step decreases Sent or Failed; a step in which a worker completes
\* an iteration adds exactly 1 to exactly one of them, and no other step
\* changes them; so Sent + Failed is the number of completed iterations,
\* whatever the interleaving of the workers.
C32_CountersCountIterations ==
    /\ [][/\ sender'.Sent >= sender.Sent
          /\ sender'.Failed >= sender.Failed
          /\ IF \E k \in Workers : Completes(k)
             THEN (sender'.Sent + sender'.Failed) = (sender.Sent + sender.Failed) + 1
             ELSE sender'.Sent = sender.Sent /\ sender'.Failed = sender.Failed]_vars
    /\ [](sender.Sent + sender.Failed = Completed)

\* Witness of C32: three iterations are complete, two counted as Sent and
\* one as Failed, after both workers had an iteration in progress at once.
C32_Witness ==
    /\ sender.Sent = 2 /\ sender.Failed = 1
    /\ sender.started = 3 /\ InFlight = 0
    /\ \A k \in Workers : workers[k].pc = "loop"
    /\ Len(conns) > p.maxSize

-----------------------------------------------------------------------------
(* Order of the packets of a TCP spoofed connection (checked under SpecConn) *)

\* The data packets (PSH+ACK) among the packets of the Write in progress.
DataPackets(w) == { k \in 1..Len(w) : w[k].flags = FlagPSHACK }

\* C33: on a TCP spoofed connection a step sends a data packet only on a
\* connection that is established when the step begins, or in the step that
\* completes the handshake, after the SYN and the ACK with the same source
\* port; the connection becomes established only in a step of the handshake
\* that follows the SYN and sends the ACK, so an established connection has
\* been through the reads of a handshake; a handshake that fails makes Write
\* return 0 bytes and an error, sends no data packet and leaves the
\* connection not established.
C33_NoDataBeforeHandshake ==
    /\ [][(c.protocol = "tcp" /\ wire' # wire /\ DataPackets(wire') # {}) =>
            /\ c'.connected
            /\ \/ c.connected
               \/ /\ pc = "recv"
                  /\ FlagsOf(wire') = << FlagSYN, FlagACK, FlagPSHACK >>
                  /\ \A k \in 1..3 : wire'[k].srcPort = c'.srcPort]_vars
    /\ [][(~c.connected /\ c'.connected) =>
            /\ pc = "recv" /\ Len(reads') = Len(reads) + 1
            /\ Len(wire') >= 2
            /\ wire'[1].flags = FlagSYN /\ wire'[2].flags = FlagACK]_vars
    /\ [](c.connected =>
            (c.protocol = "tcp" /\ reads # <<>>))
    /\ [][(c.protocol = "tcp" /\ ~c.connected /\ ~c.closed /\ pc' = "idle"
             /\ (pc = "recv" \/ nwrites' = nwrites + 1) /\ ~c'.connected) =>
            /\ ret'.n = 0 /\ ret'.err \notin {NoErr, Pending}
            /\ DataPackets(wire') = {}]_vars

\* Witness of C33: the Write that made the handshake has returned with its
\* data sent, after a read that timed out or was discarded: SYN, ACK and
\* data packet are on the wire in this order.
C33_Witness ==
    /\ c.protocol = "tcp" /\ c.connected /\ pc = "idle"
    /\ Len(reads) >= 2
    /\ FlagsOf(wire) = << FlagSYN, FlagACK, FlagPSHACK >>
    /\ ret.err = NoErr /\ ret.n = data /\ data > 0

-----------------------------------------------------------------------------
(* The workers after cancellation (checked under SpecPool) *)

\* C34: once the cancellation signal has fired no worker starts an iteration:
\* a worker at the top of its loop stays there or exits, and the number of
\* iterations started no longer grows; every iteration started is counted or
\* in progress, at most one per worker.  So after the signal Sent + Failed
\* grows by the iterations then in progress, at most one per worker.
C34_AtMostOneMoreIteration ==
    /\ [][sender.done =>
            /\ sender'.started = sender.started
            /\ \A k \in Workers :
                  workers[k].pc \in {"loop", "exited"}
                     => workers'[k].pc \in {"loop", "exited"}
            /\ sender'.Sent + sender'.Failed + InFlight'
                  = sender.Sent + sender.Failed + InFlight]_vars
    /\ [](sender.done =>
            /\ sender.Sent + sender.Failed + InFlight = sender.started
            /\ InFlight <= NumWorkers)

\* Witness of C34: the signal has fired, one worker has seen it and exited,
\* the other completes the iteration it had begun: its Write has returned
\* and it is in Put.
C34_Witness ==
    /\ sender.done /\ sender.phase = "running"
    /\ \E k1, k2 \in Workers :
          /\ workers[k1].pc = "exited"
          /\ workers[k2].pc = "putting"
    /\ sender.Sent + sender.Failed = 1 /\ sender.started = 2

-----------------------------------------------------------------------------
(* Get and Put of one worker (checked under SpecPool) *)

\* C35: a worker holds a connection exactly from the Get that returned it
\* through Write, whether it succeeded or failed, to the one Put of that
\* connection; a Get that fails is followed by no Put; a worker holds no
\* connection at the top of its loop, in Get and once it has exited, and
\* never more than one.
C35_PutOncePerGet ==
    /\ [](\A k \in Workers :
            /\ workers[k].pc \in {"unborn", "loop", "get", "getting", "exited"}
                  => workers[k].conn = NoConn
            /\ workers[k].pc \in {"write", "put", "putting"}
                  => workers[k].conn \in 1..Len(conns))
    /\ [][\A k \in Workers :
            LET old == workers[k]
                new == workers'[k]
            IN  (old # new) =>
                  /\ (old.conn = NoConn /\ new.conn # NoConn)
                        => (old.pc = "getting" /\ new.pc = "write")
                  /\ old.pc = "getting" => new.pc \in {"write", "loop"}
                  /\ old.pc = "write"
                        => (new.pc = "put" /\ new.conn = old.conn
                            /\ new.err \in {NoErr, ErrWriteData})
                  /\ old.pc = "put" => (new.pc = "putting" /\ new.conn = old.conn)
                  /\ old.pc = "putting" => (new.pc = "loop" /\ new.conn = NoConn)
                  /\ new.pc \in {"put", "putting"} => old.pc \in {"write", "put"}]_vars

\* Witness of C35: a Write has failed and its worker is in the Put of the
\* connection, which Get had created for it, while the other worker is at
\* the top of its loop; one earlier iteration failed and was counted.
C35_Witness ==
    /\ p.protocol = "tcp"
    /\ \E k1, k2 \in Workers :
          /\ workers[k1].pc = "putting" /\ workers[k1].err = ErrWriteData
          /\ workers[k1].conn > p.maxSize
          /\ workers[k2].pc = "loop"
    /\ sender.Failed = 1 /\ sender.Sent = 0 /\ sender.started = 2

-----------------------------------------------------------------------------
(* Where the pool's connections are (checked under SpecPool) *)

\* The places connection id is in: on the free queue (once per position),
\* with each worker that holds it, closed.
Places(id) ==
    Cardinality({ k \in 1..Len(p.connections) : p.connections[k] = id })
    + Cardinality({ k \in Workers : workers[k].conn = id })
    + (IF conns[id].closed THEN 1 ELSE 0)

\* C37: every connection the pool has created is in exactly one place: once
\* on the free queue, or held by one worker, or closed; and when the pool is
\* closed and no worker holds a connection, every connection is closed.
C37_OnePlacePerConnection ==
    /\ \A id \in 1..Len(conns) : Places(id) = 1
    /\ (p.closed /\ \A k \in Workers : workers[k].conn = NoConn)
          => \A id \in 1..Len(conns) : conns[id].closed

\* Witness of C37: Stop has closed the pool of a running Sender whose
\* workers have sent; no worker holds a connection any more and every
\* connection, those created after construction too, is closed.
C37_Witness ==
    /\ p.closed /\ sender.phase = "running" /\ sender.stops >= 1
    /\ Len(conns) > p.maxSize
    /\ \A k \in Workers : workers[k].conn = NoConn
    /\ \A id \in 1..Len(conns) : conns[id].closed
    /\ sender.started >= 2 /\ InFlight = 0

-----------------------------------------------------------------------------
(* Sent and the calls of Write (checked under SpecPool) *)

\* C38: Sent grows only in a step in which a sendMessage that called
\* conn.Write returns (the worker leaves Put); a step in which Get fails
\* leaves Sent as it is, over TCP and over UDP.
C38_SentOnlyAfterWrite ==
    [][/\ (sender'.Sent # sender.Sent)
             => \E k \in Workers : workers[k].pc = "putting" /\ workers'[k].pc = "loop"
       /\ \A k \in Workers :
             (workers[k].pc = "getting" /\ workers'[k].pc = "loop")
                => sender'.Sent = sender.Sent]_vars

-----------------------------------------------------------------------------
(* Get, Put and Close under the lock (checked under SpecLock) *)

\* C36: a worker that is between the closed check of its Get or Put and its
\* operation on the channel finds the pool open (no send on and no receive
\* from the closed channel, hence no panic); once the pool is closed the free
\* queue is empty and stays so: no Put adds to it and no Get takes from it;
\* the workers in Get or Put, and only they, hold the read lock; and the
\* closed flag changes only with the write lock held and no reader.
C36_NoChannelUseAfterClose ==
    /\ [](\A k \in Workers :
            /\ workers[k].pc \in {"receiving", "sending"} => ~p.closed
            /\ workers[k].pc # "panicked"
            /\ workers[k].pc \in {"getting", "receiving", "putting", "sending"}
                  <=> k \in mutex.readers)
    /\ [](p.closed => p.connections = <<>>)
    /\ [][p.closed => (p'.closed /\ p'.connections = p.connections)]_vars
    /\ [][(p'.closed # p.closed) =>
            /\ mutex.readers = {}
            /\ sender.stop = "locked" \/ sender.phase = "new"]_vars

\* Witness of C36: Stop has called Close, which waits for the write lock,
\* while one worker is between the closed check of its Put and the send on
\* the channel and the other between the closed check of its Get and the
\* receive.
C36_Witness ==
    /\ sender.stop = "locked" /\ mutex.writer = "waiting" /\ ~p.closed
    /\ \E k1, k2 \in Workers :
          /\ workers[k1].pc = "sending"
          /\ workers[k2].pc = "receiving"

-----------------------------------------------------------------------------
(* The transport checksums of the two builds (checked under SpecChecksum) *)

\* The Internet checksum of b: the complement of the one's-complement sum
\* of its 16-bit words.
InternetChecksum(b) ==
    LET s == WordSum(b)
    IN  65535 - (IF s = 0 THEN 0 ELSE ((s - 1) % 65535) + 1)

\* The pseudo-header of the call followed.
CallPseudoHeader ==
    PseudoHeader(arg.srcIP, arg.dstIP, arg.proto, Len(arg.header) + Len(arg.bytes))

====
